---- MODULE Spec2Model ----
(***************************************************************************)
(* State-machine models of the utilities of Python_Mini_Utilities:         *)
(* password_checker.py, todo_cli.py / todo_flask.py, chem_toolkit.py,      *)
(* port_watcher.py and finance_tracker.py.  The scripts share no state, so *)
(* each has its own variables, initial condition and next-state relation,  *)
(* and its own specification in which the other scripts stay parked.       *)
(* Python strings are sequences of one-character strings.                  *)
(***************************************************************************)
EXTENDS Integers, Sequences, FiniteSets, TLC

VARIABLES
    pwInput,      \* password_checker: the argument of check_password_strength
    pwResult,     \* password_checker: what check_password_strength returned
    todoFile,     \* todo_cli: tools/todos.txt, [exists, text]
    cliPc,        \* todo_cli main: "start" (before line 102), "menu", "exited"
    cliTodos,     \* todo_cli main: the list todos held in memory
    cliLast,      \* todo_cli main: the last menu command, its input and what it printed
    chemInput,    \* chem_toolkit: the argument of parse_formula
    chemFormula,  \* chem_toolkit parse_formula: the local formula as it is rewritten
    chemPc,       \* chem_toolkit parse_formula: "expand", "count", "returned", "raised"
    chemResult,   \* chem_toolkit parse_formula: the dict returned or the error raised
    portArgs,     \* port_watcher main: args, the parsed command line
    portListeners,\* port_watcher: the loopback ports that have a listener
    portPc,       \* port_watcher main: "main", "scanning", "summary", "exited"
    start_port,   \* port_watcher main: start_port
    end_port,     \* port_watcher main: end_port
    scanIndex,    \* port_watcher scan_ports: i of enumerate(range(...), 1)
    busy_ports,   \* port_watcher scan_ports: busy_ports
    free_ports,   \* port_watcher scan_ports: free_ports
    portProbes,   \* port_watcher: the ports check_port was called with, in order
    lastConnect,  \* port_watcher check_port: what the last connect_ex did
    scan_time,    \* port_watcher scan_ports: scan_time, in clock ticks
    portExit,     \* port_watcher main: the exit code returned
    finFile,      \* finance_tracker: finance_data.json, [exists, text]
    finBak,       \* finance_tracker: finance_data.json.bak
    finTmp,       \* finance_tracker: finance_data.json.tmp
    finData,      \* finance_tracker: self.data
    finPc,        \* finance_tracker: "start", "menu", and inside save_data "backup", "write", "replace", "restore"
    finLast,      \* finance_tracker save_data: how the backup went and what was returned
    shPc,         \* shared todos.txt: where each writer is
    shSession,    \* shared todos.txt: the list `todos` of each CLI session's main
    shSaving,     \* shared todos.txt: the list each writer passed to save_todos
    shTmp,        \* shared todos.txt: the temp file of each writer's save_todos
    shWritten,    \* shared todos.txt: how many lines each writer's loop has written
    shEffect,     \* shared todos.txt: what each writer's mutation adds and removes
    shAfter,      \* shared todos.txt: where each writer continues after save_todos
    shExpected,   \* shared todos.txt: per text, additions less removals of the mutations saved
    shOps,        \* shared todos.txt: the number of mutations started
    timer_running,\* pomoban: the global timer_running
    time_left,    \* pomoban: the global time_left
    active_task_id,\* pomoban: the global active_task_id, NoTask for None
    tasks,        \* pomoban: the rows of table tasks, [id, task, status, pomos]
    col_idx,      \* pomoban main: col_idx
    row_idx,      \* pomoban main: row_idx
    uiPc,         \* pomoban main: "loop", inside the 's' branch "toggle", "reset", and "quit"
    tmrPc,        \* pomoban timer_loop: "check", "sleep", "store", "test", "stop", "credit"
    tmrRead,      \* pomoban timer_loop: the value of time_left read by `time_left -= 1`
    pomWrites,    \* pomoban: the threads that have written time_left and timer_running
    pomPresses,   \* pomoban: the number of S presses that reached line 166
    pomZeros,     \* pomoban: the number of times the timer thread stored 0 to time_left
    txPc,         \* finance_tracker add_transaction: the prompt it is at, "idle" outside the call
    t_type,       \* finance_tracker add_transaction: t_type
    amount,       \* finance_tracker add_transaction: amount, a float
    desc,         \* finance_tracker add_transaction: desc
    category,     \* finance_tracker add_transaction: category
    date,         \* finance_tracker add_transaction: date
    txAdded,      \* finance_tracker add_transaction: the number of calls that have appended
    txRejected,   \* finance_tracker add_transaction: the inputs the current prompt has rejected in a row
    capPc,        \* captcha_generator main: "menu", "verify" (at line 206), "printed" (after line 212), "exited"
    capResult,    \* captcha_generator main: result, the dict of generate_with_hint
    capChoice,    \* captcha_generator main: choice, "other" for what is not 1..5
    user_input,   \* captcha_generator main: user_input, the answer typed for capResult
    capVerified   \* captcha_generator main: what verify_captcha said of user_input

pwVars == <<pwInput, pwResult>>

todoVars == <<todoFile, cliPc, cliTodos, cliLast>>

chemVars == <<chemInput, chemFormula, chemPc, chemResult>>

portVars == <<portArgs, portListeners, portPc, start_port, end_port, scanIndex, busy_ports,
              free_ports, portProbes, lastConnect, scan_time, portExit>>

finVars == <<finFile, finBak, finTmp, finData, finPc, finLast>>

sharedVars == <<shPc, shSession, shSaving, shTmp, shWritten, shEffect, shAfter, shExpected, shOps>>

pomVars == <<timer_running, time_left, active_task_id, tasks, col_idx, row_idx, uiPc, tmrPc,
             tmrRead, pomWrites, pomPresses, pomZeros>>

txVars == <<txPc, t_type, amount, desc, category, date, txAdded, txRejected>>

capVars == <<capPc, capChoice, capResult, user_input, capVerified>>

vars == <<pwVars, todoVars, chemVars, portVars, finVars, sharedVars, pomVars, txVars, capVars>>

(***************************************************************************)
(* Python string helpers                                                   *)
(***************************************************************************)

\* str.isspace() of one character
WhitespaceChars == {" ", "\t", "\n", "\r"}

\* the ASCII letters, upper case with its lower case
CasePairs ==
    {<<"A", "a">>, <<"B", "b">>, <<"C", "c">>, <<"D", "d">>, <<"E", "e">>, <<"F", "f">>,
     <<"G", "g">>, <<"H", "h">>, <<"I", "i">>, <<"J", "j">>, <<"K", "k">>, <<"L", "l">>,
     <<"M", "m">>, <<"N", "n">>, <<"O", "o">>, <<"P", "p">>, <<"Q", "q">>, <<"R", "r">>,
     <<"S", "s">>, <<"T", "t">>, <<"U", "u">>, <<"V", "v">>, <<"W", "w">>, <<"X", "x">>,
     <<"Y", "y">>, <<"Z", "z">>}

UpperChars == {p[1] : p \in CasePairs}

LowerChars == {p[2] : p \in CasePairs}

DigitChars == {"0", "1", "2", "3", "4", "5", "6", "7", "8", "9"}

\* "c" * n
Repeat(c, n) == [i \in 1..n |-> c]

\* s[a:b] of Python, with 0 <= a
Slice(s, a, b) == IF b <= a THEN <<>> ELSE SubSeq(s, a + 1, IF b > Len(s) THEN Len(s) ELSE b)

\* s.startswith(p)
startswith(s, p) == Len(s) >= Len(p) /\ SubSeq(s, 1, Len(p)) = p

\* c.lower()
lower_char(c) == IF c \in UpperChars THEN (CHOOSE p \in CasePairs : p[1] = c)[2] ELSE c

\* s.lower()
lower(s) == [i \in 1..Len(s) |-> lower_char(s[i])]

RECURSIVE lstrip(_)
lstrip(s) == IF s # <<>> /\ Head(s) \in WhitespaceChars THEN lstrip(Tail(s)) ELSE s

RECURSIVE rstrip(_)
rstrip(s) == IF s # <<>> /\ s[Len(s)] \in WhitespaceChars
             THEN rstrip(SubSeq(s, 1, Len(s) - 1)) ELSE s

\* s.strip()
strip(s) == rstrip(lstrip(s))

\* str(n) for the small numbers the messages print
DigitOf == <<"0", "1", "2", "3", "4", "5", "6", "7", "8", "9">>

RECURSIVE str_of_int(_)
str_of_int(n) == IF n < 10 THEN <<DigitOf[n + 1]>>
                 ELSE str_of_int(n \div 10) \o <<DigitOf[(n % 10) + 1]>>

(***************************************************************************)
(* password_checker.py                                                     *)
(***************************************************************************)

MIN_PASSWORD_LENGTH == 4

\* the longest arbitrary prefix of a modelled password
MaxPwdBody == 4
\* the longest run of one repeated character appended to the prefix
MaxPwdPad == 5

PwAlphabet == {"A", "a", "1", "!", " "}

PwBodies == UNION {[1..n -> PwAlphabet] : n \in 0..MaxPwdBody}

PwStrings == {b \o Repeat(c, k) : b \in PwBodies, c \in PwAlphabet, k \in 0..MaxPwdPad}

\* the values handed to the checker: None, a non-string (an int), or a string
PwNone == [kind |-> "none", s |-> <<>>]
PwInt == [kind |-> "int", s |-> <<>>]
PwStr(s) == [kind |-> "str", s |-> s]

PwInputs == {PwNone, PwInt} \cup {PwStr(s) : s \in PwStrings}

isupper(c) == c \in UpperChars
islower(c) == c \in LowerChars
isdigit(c) == c \in DigitChars

\* str.isspace(): non-empty and every character is whitespace
isspace(s) == Len(s) > 0 /\ \A i \in 1..Len(s) : s[i] \in WhitespaceChars

\* Python's None as an error message
NoMessage == <<>>
\* the result variable before the call returns
PwPending == <<"<pending>">>

\* the length check moved ahead of the emptiness and whitespace checks
validate_password_input_lengthFirst(password) ==
    IF password.kind = "none"
    THEN [is_valid |-> FALSE, error_message |-> <<"Password cannot be None. Please enter a password.">>]
    ELSE IF password.kind # "str"
    THEN [is_valid |-> FALSE, error_message |-> <<"Password must be a string.">>]
    ELSE IF Len(password.s) < MIN_PASSWORD_LENGTH
    THEN [is_valid |-> FALSE,
          error_message |-> <<"Password is too short (">> \o str_of_int(Len(password.s))
                            \o <<" characters). Please use at least ">>
                            \o str_of_int(MIN_PASSWORD_LENGTH) \o <<" characters.">>]
    ELSE IF isspace(password.s)
    THEN [is_valid |-> FALSE, error_message |-> <<"Password cannot be only whitespace. Please enter a valid password.">>]
    ELSE [is_valid |-> TRUE, error_message |-> NoMessage]

validate_password_input(password) ==
    IF password.kind = "none"
    THEN [is_valid |-> FALSE, error_message |-> <<"Password cannot be None. Please enter a password.">>]
    ELSE IF password.kind # "str"
    THEN [is_valid |-> FALSE, error_message |-> <<"Password must be a string.">>]
    ELSE IF Len(password.s) = 0
    THEN [is_valid |-> FALSE, error_message |-> <<"Password cannot be empty. Please enter a password.">>]
    ELSE IF isspace(password.s)
    THEN [is_valid |-> FALSE, error_message |-> <<"Password cannot be only whitespace. Please enter a valid password.">>]
    ELSE IF Len(password.s) < MIN_PASSWORD_LENGTH
    THEN [is_valid |-> FALSE,
          error_message |-> <<"Password is too short (">> \o str_of_int(Len(password.s))
                            \o <<" characters). Please use at least ">>
                            \o str_of_int(MIN_PASSWORD_LENGTH) \o <<" characters.">>]
    ELSE [is_valid |-> TRUE, error_message |-> NoMessage]

\* sum() of a list of booleans
BoolSum(bs) == Cardinality({i \in 1..Len(bs) : bs[i]})

\* the Medium band widened by one: a score of 2 is no longer Weak
StrengthOfScore_offByOne(score) ==
    IF score <= 1 THEN <<"Weak">>
    ELSE IF score <= 3 THEN <<"Medium">>
    ELSE <<"Strong">>

StrengthOfScore(score) ==
    IF score <= 2 THEN <<"Weak">>
    ELSE IF score = 3 THEN <<"Medium">>
    ELSE <<"Strong">>

\* len(password) and the iteration of lines 48-51 raise TypeError for a value
\* that is not a string
PwRaised == <<"<TypeError>">>

\* the rating given without validating first
check_password_strength_unvalidated(password) ==
    IF password.kind # "str" THEN PwRaised
    ELSE LET s == password.s
             length_score == Len(s) >= 8
             has_upper == \E i \in 1..Len(s) : isupper(s[i])
             has_lower == \E i \in 1..Len(s) : islower(s[i])
             has_digit == \E i \in 1..Len(s) : isdigit(s[i])
             score == BoolSum(<<length_score, has_upper, has_lower, has_digit>>)
         IN StrengthOfScore(score)

check_password_strength(password) ==
    LET v == validate_password_input(password) IN
    IF ~v.is_valid THEN v.error_message
    ELSE IF password.kind # "str" THEN PwRaised
    ELSE LET s == password.s
             length_score == Len(s) >= 8
             has_upper == \E i \in 1..Len(s) : isupper(s[i])
             has_lower == \E i \in 1..Len(s) : islower(s[i])
             has_digit == \E i \in 1..Len(s) : isdigit(s[i])
             score == BoolSum(<<length_score, has_upper, has_lower, has_digit>>)
         IN StrengthOfScore(score)

PwInit == pwInput \in PwInputs /\ pwResult = PwPending

PwIdle == pwInput = PwNone /\ pwResult = PwPending

\* the other scripts do not move while the password checker runs
PwFrame == UNCHANGED <<todoVars, chemVars, portVars, finVars, sharedVars, pomVars, txVars, capVars>>

\* the script's call: result = check_password_strength(pwd)
CheckPasswordStrength ==
    /\ PwFrame
    /\ pwResult = PwPending
    /\ pwResult' = check_password_strength(pwInput)
    /\ UNCHANGED pwInput

PwNext == CheckPasswordStrength

\* C1's reading of the four criteria, counted from the password itself
PwCriteriaMet(s) ==
    {c \in {"length", "upper", "lower", "digit"} :
        \/ c = "length" /\ Len(s) >= 8
        \/ c = "upper" /\ \E i \in 1..Len(s) : s[i] \in UpperChars
        \/ c = "lower" /\ \E i \in 1..Len(s) : s[i] \in LowerChars
        \/ c = "digit" /\ \E i \in 1..Len(s) : s[i] \in DigitChars}

PwLabelOfCount(n) == CASE n \in 0..2 -> <<"Weak">> [] n = 3 -> <<"Medium">> [] n = 4 -> <<"Strong">>

PwRank(label) == CASE label = <<"Weak">> -> 0 [] label = <<"Medium">> -> 1 [] label = <<"Strong">> -> 2

\* C1: for a password that passes validation the result is decided by the number
\* of satisfied criteria among {length >= 8, upper, lower, digit}: 0..2 Weak,
\* 3 Medium, 4 Strong; and a password satisfying more criteria never gets a
\* lower label than one satisfying fewer.
C1_StrengthByCriteriaCount ==
    (pwResult # PwPending /\ validate_password_input(pwInput).is_valid) =>
        /\ pwResult = PwLabelOfCount(Cardinality(PwCriteriaMet(pwInput.s)))
        /\ \A t \in {<<"A", "a", "1", "!">>, <<"a", "a", "a", "a">>, <<"!", "!", "!", "!">>,
                      <<"A", "a", "!", "!">>, Repeat("a", 8), <<"A", "1">> \o Repeat("a", 6)} :
              Cardinality(PwCriteriaMet(t)) <= Cardinality(PwCriteriaMet(pwInput.s))
                  => PwRank(check_password_strength(PwStr(t))) <= PwRank(pwResult)

\* the analogue of "Password": length 8, upper and lower, no digit
C1_Witness ==
    /\ pwInput = PwStr(<<"A">> \o Repeat("a", 7))
    /\ pwResult = <<"Medium">>

\* the checks of C17 in the order it gives them, each with what it rejects
PwFailingChecks(p) ==
    <<p.kind = "none",
      p.kind # "str",
      p.kind = "str" /\ Len(p.s) = 0,
      p.kind = "str" /\ Len(p.s) > 0 /\ \A i \in 1..Len(p.s) : p.s[i] \in WhitespaceChars,
      p.kind = "str" /\ Len(p.s) < MIN_PASSWORD_LENGTH>>

\* the first check of that order that rejects p, 0 when none does
PwFirstFailing(p) ==
    IF \E k \in 1..5 : PwFailingChecks(p)[k]
    THEN CHOOSE k \in 1..5 : PwFailingChecks(p)[k] /\ \A j \in 1..(k - 1) : ~PwFailingChecks(p)[j]
    ELSE 0

\* what each message is about: the word the tests look for in it
PwMessageTopic(message) ==
    CASE message = NoMessage -> "valid"
      [] message = <<"Password cannot be None. Please enter a password.">> -> "None"
      [] message = <<"Password must be a string.">> -> "string"
      [] message = <<"Password cannot be empty. Please enter a password.">> -> "empty"
      [] message = <<"Password cannot be only whitespace. Please enter a valid password.">>
            -> "whitespace"
      [] Len(message) > 0 /\ message[1] = <<"Password is too short (">>[1] -> "too short"
      [] OTHER -> "other"

PwTopicOfCheck == <<"None", "string", "empty", "whitespace", "too short">>

\* C17: validate_password_input returns (True, None) exactly for strings that
\* are non-empty, not whitespace-only and at least MIN_PASSWORD_LENGTH long;
\* otherwise it returns (False, message) with the message of the first failing
\* check in the order None, non-string, empty, whitespace-only, too short, and
\* the too-short message contains MIN_PASSWORD_LENGTH
C17_ValidationFirstFailingCheck ==
    pwResult # PwPending =>
        LET v == validate_password_input(pwInput)
            k == PwFirstFailing(pwInput)
        IN  /\ v.is_valid <=> k = 0
            /\ v.is_valid => v.error_message = NoMessage
            /\ k # 0 => PwMessageTopic(v.error_message) = PwTopicOfCheck[k]
            /\ k = 5 => \E i \in 1..Len(v.error_message) :
                            SubSeq(v.error_message, i, i + Len(str_of_int(MIN_PASSWORD_LENGTH)) - 1)
                               = str_of_int(MIN_PASSWORD_LENGTH)

\* two spaces: whitespace-only and shorter than MIN_PASSWORD_LENGTH, reported
\* as whitespace
C17_Witness ==
    /\ pwInput = PwStr(<<" ", " ">>)
    /\ pwResult = <<"Password cannot be only whitespace. Please enter a valid password.">>

PwLabels == {<<"Weak">>, <<"Medium">>, <<"Strong">>}

\* C18: check_password_strength returns the error message of
\* validate_password_input for every input that fails validation, returns
\* Weak, Medium or Strong only for inputs that pass it, and never raises
C18_ErrorMessageOrLabel ==
    pwResult # PwPending =>
        LET v == validate_password_input(pwInput) IN
        /\ pwResult # PwRaised
        /\ ~v.is_valid => pwResult = v.error_message /\ pwResult \notin PwLabels
        /\ pwResult \in PwLabels => v.is_valid
        /\ v.is_valid => pwResult \in PwLabels

\* a number handed in: the message of the non-string check comes back
C18_Witness ==
    /\ pwInput = PwInt
    /\ pwResult = <<"Password must be a string.">>

(***************************************************************************)
(* todo_cli.py: the file, the helpers and the menu loop of one CLI session *)
(***************************************************************************)

MAX_TASK_LEN == 36

\* the most lines the modelled to-do file grows to
MaxTodos == 2

NoFile == [exists |-> FALSE, text |-> <<>>]

FileOf(text) == [exists |-> TRUE, text |-> text]

Min(S) == CHOOSE x \in S : \A y \in S : x <= y

\* iterating an open text file: the text cut after every newline
RECURSIVE FileLines(_)
FileLines(text) ==
    IF text = <<>> THEN <<>>
    ELSE LET nl == {i \in 1..Len(text) : text[i] = "\n"} IN
         IF nl = {} THEN <<text>>
         ELSE <<SubSeq(text, 1, Min(nl))>> \o FileLines(SubSeq(text, Min(nl) + 1, Len(text)))

RECURSIVE StripNonBlank(_)
StripNonBlank(lines) ==
    IF lines = <<>> THEN <<>>
    ELSE IF strip(Head(lines)) # <<>>
         THEN <<strip(Head(lines))>> \o StripNonBlank(Tail(lines))
         ELSE StripNonBlank(Tail(lines))

\* load_todos() reading the file `file`
load_todos(file) == IF ~file.exists THEN <<>> ELSE StripNonBlank(FileLines(file.text))

\* the text the loop of save_todos writes for the first k todos
RECURSIVE WrittenText(_, _)
WrittenText(todos, k) ==
    IF k = 0 THEN <<>> ELSE WrittenText(todos, k - 1) \o todos[k] \o <<"\n">>

\* the file after an uninterrupted save_todos(todos): the temp file, completely
\* written, renamed over the path
save_todos(todos) == FileOf(WrittenText(todos, Len(todos)))

\* add_task(task) run against `file`: what it returns and the file it leaves
add_task(task, file) ==
    LET stripped == strip(task)
        cut == IF Len(stripped) > MAX_TASK_LEN THEN Slice(stripped, 0, MAX_TASK_LEN) ELSE stripped
        todos == load_todos(file)
        normalized == {lower(strip(todos[i])) : i \in 1..Len(todos)}
    IN IF stripped = <<>> THEN [added |-> FALSE, file |-> file]
       ELSE IF lower(cut) \in normalized THEN [added |-> FALSE, file |-> file]
       ELSE [added |-> TRUE, file |-> save_todos(Append(todos, cut))]

DONE_MARK == <<"[", "x", "]">>

DONE_MARK_SP == <<"[", "x", "]", " ">>

is_completed(task) == startswith(task, DONE_MARK_SP) \/ startswith(task, DONE_MARK)

\* toggle_completion that always cuts three characters, leaving the space behind
toggle_completion_cut3(task) ==
    IF is_completed(task) THEN Slice(task, 3, Len(task))
    ELSE DONE_MARK_SP \o task

toggle_completion(task) ==
    IF is_completed(task)
    THEN IF startswith(task, DONE_MARK_SP) THEN Slice(task, 4, Len(task))
         ELSE Slice(task, 3, Len(task))
    ELSE DONE_MARK_SP \o task

\* show_todos (lines 82-98): for each line whether it is shown as done and
\* the text shown for it, and the two counts of the last line printed
show_todos(todos) ==
    LET rows == [i \in 1..Len(todos) |->
                    [done |-> is_completed(todos[i]),
                     display_task |-> IF startswith(todos[i], DONE_MARK_SP)
                                      THEN Slice(todos[i], 4, Len(todos[i]))
                                      ELSE todos[i]]]
        completed_count == Cardinality({i \in 1..Len(todos) : is_completed(todos[i])})
    IN  [rows |-> rows, pending |-> Len(todos) - completed_count, done |-> completed_count]

\* what the user may type at "New task:"
TaskInputs ==
    {<<"a">>, <<"A">>, <<" ", "b", " ">>, <<" ">>,
     <<"[", " ", "]", " ", "a">>, <<"[", "x", "]", " ", "a">>, <<"[", "x", "]", "a">>,
     <<"[", "x", "]">>, Repeat("z", MAX_TASK_LEN + 1),
     Repeat("z", MAX_TASK_LEN - 1) \o <<" ", "a">>}

\* what the user may type at "Task number": not a number, or an integer
NotANumber == [isnum |-> FALSE, n |-> 0]

NumberInputs == {NotANumber} \cup {[isnum |-> TRUE, n |-> k] : k \in -1..(MaxTodos + 1)}

NoIndex == -99

LogEntry(choice, index, task, before, out) ==
    [choice |-> choice, index |-> index, task |-> task, before |-> before, out |-> out]

NoCommand == LogEntry("none", NoIndex, <<>>, <<>>, "")

\* the other scripts do not move while the to-do CLI runs
TodoFrame == UNCHANGED <<pwVars, chemVars, portVars, finVars, sharedVars, pomVars, txVars, capVars>>

TodoInit ==
    /\ todoFile = NoFile
    /\ cliPc = "start"
    /\ cliTodos = <<>>
    /\ cliLast = NoCommand

\* main(), line 102: todos = load_todos()
MainLoad ==
    /\ cliPc = "start"
    /\ cliTodos' = load_todos(todoFile)
    /\ cliPc' = "menu"
    /\ UNCHANGED <<todoFile, cliLast>>
    /\ TodoFrame

\* choice "1": show_todos(todos)
ViewTasks ==
    /\ cliPc = "menu"
    /\ cliLast' = LogEntry("1", NoIndex, <<>>, cliTodos,
                                         IF cliTodos = <<>> THEN "No tasks yet" ELSE "list")
    /\ UNCHANGED <<todoFile, cliPc, cliTodos>>
    /\ TodoFrame

\* choice "2": add a task
AddTask ==
    /\ cliPc = "menu"
    /\ Len(load_todos(todoFile)) < MaxTodos
    /\ \E typed \in TaskInputs :
         LET task == strip(typed)
             r == add_task(task, todoFile)
         IN IF task # <<>>
            THEN /\ todoFile' = r.file
                 /\ cliTodos' = IF r.added THEN load_todos(r.file) ELSE cliTodos
                 /\ cliLast' = LogEntry("2", NoIndex, typed, cliTodos,
                                  IF r.added THEN "Task added" ELSE "Task is a duplicate or empty")
            ELSE /\ cliLast' = LogEntry("2", NoIndex, typed, cliTodos,
                                                      "Task cannot be empty")
                 /\ UNCHANGED <<todoFile, cliTodos>>
    /\ UNCHANGED cliPc
    /\ TodoFrame

\* choice "3": delete a task
DeleteTask ==
    /\ cliPc = "menu"
    /\ \E typed \in NumberInputs :
         LET index == typed.n - 1 IN
         IF cliTodos = <<>>
         THEN /\ cliLast' = LogEntry("3", NoIndex, <<>>, cliTodos, "No tasks yet")
              /\ UNCHANGED <<todoFile, cliTodos>>
         ELSE IF ~typed.isnum
         THEN /\ cliLast' = LogEntry("3", NoIndex, <<>>, cliTodos, "Enter a valid number")
              /\ UNCHANGED <<todoFile, cliTodos>>
         ELSE IF 0 <= index /\ index < Len(cliTodos)
         THEN /\ cliTodos' = SubSeq(cliTodos, 1, index) \o SubSeq(cliTodos, index + 2, Len(cliTodos))
              /\ todoFile' = save_todos(cliTodos')
              /\ cliLast' = LogEntry("3", index, <<>>, cliTodos, "Removed")
         ELSE /\ cliLast' = LogEntry("3", index, <<>>, cliTodos, "Invalid number")
              /\ UNCHANGED <<todoFile, cliTodos>>
    /\ UNCHANGED cliPc
    /\ TodoFrame

\* choice "4": "Mark Done", which toggles the marker of a task
ToggleTask ==
    /\ cliPc = "menu"
    /\ \E typed \in NumberInputs :
         LET index == typed.n - 1 IN
         IF cliTodos = <<>>
         THEN /\ cliLast' = LogEntry("4", NoIndex, <<>>, cliTodos, "No tasks to mark!")
              /\ UNCHANGED <<todoFile, cliTodos>>
         ELSE IF ~typed.isnum
         THEN /\ cliLast' = LogEntry("4", NoIndex, <<>>, cliTodos, "Enter a valid number")
              /\ UNCHANGED <<todoFile, cliTodos>>
         ELSE IF 0 <= index /\ index < Len(cliTodos)
         THEN /\ cliTodos' = [cliTodos EXCEPT ![index + 1] = toggle_completion(@)]
              /\ todoFile' = save_todos(cliTodos')
              /\ cliLast' = LogEntry("4", index, <<>>, cliTodos,
                               IF is_completed(cliTodos'[index + 1])
                               THEN "marked DONE" ELSE "marked PENDING")
         ELSE /\ cliLast' = LogEntry("4", index, <<>>, cliTodos, "Invalid number")
              /\ UNCHANGED <<todoFile, cliTodos>>
    /\ UNCHANGED cliPc
    /\ TodoFrame

\* choice "5": leave the loop
ExitMenu ==
    /\ cliPc = "menu"
    /\ cliPc' = "exited"
    /\ cliLast' = LogEntry("5", NoIndex, <<>>, cliTodos, "Goodbye!")
    /\ UNCHANGED <<todoFile, cliTodos>>
    /\ TodoFrame

\* any other choice
InvalidOption ==
    /\ cliPc = "menu"
    /\ cliLast' = LogEntry("?", NoIndex, <<>>, cliTodos, "Invalid option (1-5)")
    /\ UNCHANGED <<todoFile, cliPc, cliTodos>>
    /\ TodoFrame

TodoNext ==
    \/ MainLoad
    \/ ViewTasks
    \/ AddTask
    \/ DeleteTask
    \/ ToggleTask
    \/ ExitMenu
    \/ InvalidOption

\* the step is a "4" command of the menu on a non-empty list, with a number typed
StepIsToggleCommand ==
    /\ cliPc = "menu"
    /\ cliTodos # <<>>
    /\ cliLast'.choice = "4"
    /\ cliLast'.before = cliTodos
    /\ cliLast'.index # NoIndex

ToggleReports == {"marked DONE", "marked PENDING"}

C3_MarkDoneFailsWithoutMutation ==
    [][StepIsToggleCommand =>
        LET i == cliLast'.index IN
        /\ (i < 0 \/ i >= Len(cliTodos))
              => /\ cliTodos' = cliTodos
                 /\ todoFile' = todoFile
                 /\ cliLast'.out = "Invalid number"
        /\ (0 <= i /\ i < Len(cliTodos) /\ is_completed(cliTodos[i + 1]))
              => /\ cliTodos' = cliTodos
                 /\ todoFile' = todoFile
                 /\ cliLast'.out \notin ToggleReports]_vars

\* the step is a "2" command of the menu
StepIsAddCommand == cliPc = "menu" /\ cliLast'.choice = "2"

\* the lines of the to-do file as they stand in it, without their line ends
StoredLines(file) ==
    IF ~file.exists THEN <<>>
    ELSE LET lines == FileLines(file.text) IN
         [i \in 1..Len(lines) |->
             IF lines[i][Len(lines[i])] = "\n" THEN SubSeq(lines[i], 1, Len(lines[i]) - 1)
             ELSE lines[i]]

\* C21: add_task returns True and appends exactly one line, the stripped task
\* cut to MAX_TASK_LEN characters, at the end of the file iff the stripped task
\* is non-empty and its cut form equals, ignoring case, no line already in the
\* file; otherwise it returns False and the file is unchanged; the lines
\* already in the file and their order never change
C21_AddTaskAppendsOneLine ==
    [][StepIsAddCommand =>
        LET task == strip(cliLast'.task)
            cut == Slice(task, 0, MAX_TASK_LEN)
            before == StoredLines(todoFile)
            after == StoredLines(todoFile')
            duplicate == \E i \in 1..Len(before) : lower(before[i]) = lower(cut)
            added == cliLast'.out = "Task added"
        IN  /\ added <=> (task # <<>> /\ ~duplicate)
            /\ added => after = Append(before, cut)
            /\ ~added => todoFile' = todoFile]_vars

\* the prefix of a line that is not done, as C19 and C20 write it
PENDING_MARK_SP == <<"[", " ", "]", " ">>

\* the task text of a line as C20 defines it: the line without a leading
\* "[x] " or "[ ] "
TaskTextOf(line) ==
    IF startswith(line, DONE_MARK_SP) \/ startswith(line, PENDING_MARK_SP)
    THEN Slice(line, 4, Len(line))
    ELSE line

\* C19: marking done a not-done item at a valid index replaces only that item,
\* by the same task text with the done prefix ("[ ] Buy groceries" becomes
\* "[x] Buy groceries"), and every other item stays; marking undone a done item
\* gives the same task text with the "[ ] " prefix.
C19_MarkKeepsTaskText ==
    [][(StepIsToggleCommand /\ cliLast'.out \in ToggleReports) =>
        LET i == cliLast'.index + 1 IN
        /\ Len(cliTodos') = Len(cliTodos)
        /\ \A j \in 1..Len(cliTodos) : j # i => cliTodos'[j] = cliTodos[j]
        /\ ~is_completed(cliTodos[i])
              => cliTodos'[i] = DONE_MARK_SP \o TaskTextOf(cliTodos[i])
        /\ is_completed(cliTodos[i])
              => cliTodos'[i] = PENDING_MARK_SP \o TaskTextOf(cliTodos[i])]_vars

\* C20: of the lines the list shows, a line is done iff it starts with "[x]",
\* the text shown for a line is the line without a leading "[x] " or "[ ] ",
\* and the done line written for a text is done and has that text
C20_PrefixHelpersConsistent ==
    cliLast.choice = "1" =>
        \A i \in 1..Len(cliLast.before) :
            LET line == cliLast.before[i]
                row == show_todos(cliLast.before).rows[i]
            IN  /\ row.done <=> startswith(line, DONE_MARK)
                /\ row.display_task = TaskTextOf(line)
                /\ ~row.done =>
                      LET marked == show_todos(<<toggle_completion(line)>>).rows[1]
                      IN  marked.done /\ marked.display_task = line

\* the task text of a stored line for C23: the line without its "[x] " marker
UnmarkedText(line) == IF startswith(line, DONE_MARK_SP) THEN Slice(line, 4, Len(line)) ELSE line

\* C23: starting from an empty to-do file, after any sequence of add, delete
\* and toggle commands no two stored tasks have the same task text, ignoring
\* case and ignoring the "[x] " completion marker
C23_NoDuplicateTaskTexts ==
    LET stored == load_todos(todoFile) IN
    \A i, j \in 1..Len(stored) :
        i # j => lower(UnmarkedText(stored[i])) # lower(UnmarkedText(stored[j]))

(***************************************************************************)
(* chem_toolkit.py: parse_formula                                          *)
(***************************************************************************)

\* the keys of PERIODIC_TABLE
PERIODIC_TABLE ==
    {<<"H">>, <<"H", "e">>, <<"L", "i">>, <<"B", "e">>, <<"B">>, <<"C">>, <<"N">>,
     <<"O">>, <<"F">>, <<"N", "e">>, <<"N", "a">>, <<"M", "g">>, <<"A", "l">>,
     <<"S", "i">>, <<"P">>, <<"S">>, <<"C", "l">>, <<"A", "r">>, <<"K">>, <<"C", "a">>,
     <<"S", "c">>, <<"T", "i">>, <<"V">>, <<"C", "r">>, <<"M", "n">>, <<"F", "e">>,
     <<"C", "o">>, <<"N", "i">>, <<"C", "u">>, <<"Z", "n">>, <<"G", "a">>,
     <<"G", "e">>, <<"A", "s">>, <<"S", "e">>, <<"B", "r">>, <<"K", "r">>,
     <<"R", "b">>, <<"S", "r">>, <<"Y">>, <<"Z", "r">>, <<"N", "b">>, <<"M", "o">>,
     <<"T", "c">>, <<"R", "u">>, <<"R", "h">>, <<"P", "d">>, <<"A", "g">>,
     <<"C", "d">>, <<"I", "n">>, <<"S", "n">>, <<"S", "b">>, <<"T", "e">>, <<"I">>,
     <<"X", "e">>, <<"C", "s">>, <<"B", "a">>, <<"L", "a">>, <<"C", "e">>,
     <<"P", "r">>, <<"N", "d">>, <<"P", "m">>, <<"S", "m">>, <<"E", "u">>,
     <<"G", "d">>, <<"T", "b">>, <<"D", "y">>, <<"H", "o">>, <<"E", "r">>,
     <<"T", "m">>, <<"Y", "b">>, <<"L", "u">>, <<"H", "f">>, <<"T", "a">>, <<"W">>,
     <<"R", "e">>, <<"O", "s">>, <<"I", "r">>, <<"P", "t">>, <<"A", "u">>,
     <<"H", "g">>, <<"T", "l">>, <<"P", "b">>, <<"B", "i">>, <<"P", "o">>,
     <<"A", "t">>, <<"R", "n">>, <<"F", "r">>, <<"R", "a">>, <<"A", "c">>,
     <<"T", "h">>, <<"P", "a">>, <<"U">>, <<"N", "p">>, <<"P", "u">>, <<"A", "m">>,
     <<"C", "m">>, <<"B", "k">>, <<"C", "f">>, <<"E", "s">>, <<"F", "m">>,
     <<"M", "d">>, <<"N", "o">>, <<"L", "r">>, <<"R", "f">>, <<"D", "b">>,
     <<"S", "g">>, <<"B", "h">>, <<"H", "s">>, <<"M", "t">>, <<"D", "s">>,
     <<"R", "g">>, <<"C", "n">>, <<"N", "h">>, <<"F", "l">>, <<"M", "c">>,
     <<"L", "v">>, <<"T", "s">>, <<"O", "g">>}

OpenBrackets == {"(", "["}

CloseBrackets == {")", "]"}

\* the longest run of digits of s that starts at position p: what (\d*) matches
RECURSIVE DigitsFrom(_, _)
DigitsFrom(s, p) ==
    IF p <= Len(s) /\ s[p] \in DigitChars THEN <<s[p]>> \o DigitsFrom(s, p + 1) ELSE <<>>

DigitValue(c) == CHOOSE v \in 0..9 : DigitOf[v + 1] = c

\* int(digits) of a non-empty string of digits
RECURSIVE int_of_str(_)
int_of_str(ds) ==
    IF Len(ds) = 1 THEN DigitValue(ds[1])
    ELSE 10 * int_of_str(SubSeq(ds, 1, Len(ds) - 1)) + DigitValue(ds[Len(ds)])

\* int(m.group(2)) if m.group(2) else 1
CountOf(ds) == IF ds = <<>> THEN 1 ELSE int_of_str(ds)

\* the number of characters from position p on that are no bracket: ([^\(\)\[\]]+)
RECURSIVE NonBracketRun(_, _)
NonBracketRun(s, p) ==
    IF p <= Len(s) /\ s[p] \notin (OpenBrackets \cup CloseBrackets)
    THEN 1 + NonBracketRun(s, p + 1) ELSE 0

\* the pattern [\(\[]([^\(\)\[\]]+)[\)\]](\d*) matches at position i
GroupMatchesAt(s, i) ==
    /\ s[i] \in OpenBrackets
    /\ NonBracketRun(s, i + 1) >= 1
    /\ i + NonBracketRun(s, i + 1) + 1 <= Len(s)
    /\ s[i + NonBracketRun(s, i + 1) + 1] \in CloseBrackets

\* re.search: the leftmost match, written [start, group, digits, stop) or none
GroupSearch(s) ==
    LET starts == {i \in 1..Len(s) : GroupMatchesAt(s, i)} IN
    IF starts = {} THEN [found |-> FALSE, start |-> 0, group |-> <<>>, digits |-> <<>>, stop |-> 0]
    ELSE LET i == Min(starts)
             n == NonBracketRun(s, i + 1)
             ds == DigitsFrom(s, i + n + 2)
         IN [found |-> TRUE, start |-> i, group |-> SubSeq(s, i + 1, i + n),
             digits |-> ds, stop |-> i + n + 1 + Len(ds)]

\* re.finditer(r'([A-Z][a-z]?)(\d*)', s) from position p on: the matches in order
RECURSIVE ElementMatches(_, _)
ElementMatches(s, p) ==
    IF p > Len(s) THEN <<>>
    ELSE IF s[p] \in UpperChars
    THEN LET el == IF p + 1 <= Len(s) /\ s[p + 1] \in LowerChars
                   THEN <<s[p], s[p + 1]>> ELSE <<s[p]>>
             ds == DigitsFrom(s, p + Len(el))
         IN <<[element |-> el, digits |-> ds]>> \o ElementMatches(s, p + Len(el) + Len(ds))
    ELSE ElementMatches(s, p + 1)

\* the text one match of a group expands to (lines 183-188)
ExpandedElement(m, multiplier) ==
    IF CountOf(m.digits) * multiplier > 1
    THEN m.element \o str_of_int(CountOf(m.digits) * multiplier)
    ELSE m.element

RECURSIVE ExpandedGroup(_, _)
ExpandedGroup(ms, multiplier) ==
    IF ms = <<>> THEN <<>>
    ELSE ExpandedElement(Head(ms), multiplier) \o ExpandedGroup(Tail(ms), multiplier)

\* one pass of the while loop on a formula in which the pattern matches
ExpandOnce(s) ==
    LET m == GroupSearch(s) IN
    SubSeq(s, 1, m.start - 1)
        \o ExpandedGroup(ElementMatches(m.group, 1), CountOf(m.digits))
        \o SubSeq(s, m.stop + 1, Len(s))

\* composition[element] += count on a defaultdict(int)
AddCount(comp, el, n) ==
    [e \in DOMAIN comp \cup {el} |->
        (IF e \in DOMAIN comp THEN comp[e] ELSE 0) + (IF e = el THEN n ELSE 0)]

RECURSIVE Tally(_, _)
Tally(ms, comp) ==
    IF ms = <<>> THEN comp
    ELSE Tally(Tail(ms), AddCount(comp, Head(ms).element, CountOf(Head(ms).digits)))

EmptyDict == [e \in {} |-> 0]

NoComposition == [kind |-> "none", comp |-> EmptyDict, element |-> <<>>]

\* the second loop (lines 193-205): the dict returned, or ValueError at the
\* first element that is not in PERIODIC_TABLE
CountElements(s) ==
    LET ms == ElementMatches(s, 1)
        unknown == {i \in 1..Len(ms) : ms[i].element \notin PERIODIC_TABLE}
    IN IF unknown = {}
       THEN [kind |-> "dict", comp |-> Tally(ms, EmptyDict), element |-> <<>>]
       ELSE [kind |-> "ValueError", comp |-> EmptyDict, element |-> ms[Min(unknown)].element]

\* the most atoms written side by side in a modelled formula
MaxFlatAtoms == 2

ChemCounts == {<<>>, <<"2">>, <<"0">>}

ChemMultipliers == {<<>>, <<"2">>, <<"0">>, <<"1", "2">>}

ChemAtoms == {el \o c : el \in {<<"H">>, <<"C", "a">>}, c \in ChemCounts}

RECURSIVE FlatFormulas(_)
FlatFormulas(n) ==
    IF n = 0 THEN {<<>>}
    ELSE FlatFormulas(n - 1) \cup {f \o a : f \in FlatFormulas(n - 1), a \in ChemAtoms}

Bracketed(S, opens, mults) ==
    {<<o>> \o f \o <<IF o = "(" THEN ")" ELSE "]">> \o m : f \in S, o \in opens, m \in mults}

ChemGroups1 == Bracketed(FlatFormulas(MaxFlatAtoms) \ {<<>>}, OpenBrackets, ChemMultipliers)

ChemGroups2 ==
    Bracketed({a \o g : a \in {<<>>, <<"H">>, <<"C", "a", "2">>},
                        g \in Bracketed(FlatFormulas(MaxFlatAtoms) \ {<<>>}, {"("}, ChemMultipliers)},
              {"["}, {<<>>, <<"3">>, <<"0">>})

\* the formulas of the docstring, and formulas that are not well formed
ChemOtherInputs ==
    {<<"C", "a", "(", "O", "H", ")", "2">>,
     <<"F", "e", "2", "(", "S", "O", "4", ")", "3">>,
     <<"(", "O", "H">>, <<"(", ")", "H">>, <<"H", "(", "O", "]", "2">>,
     <<"X", "x", "2">>, <<"(", "O", "a", ")", "2">>, <<"h", "2">>}

ChemInputs ==
    FlatFormulas(MaxFlatAtoms)
    \cup {pre \o g \o post : pre \in {<<>>, <<"C", "a">>, <<"H", "2">>},
                             g \in ChemGroups1 \cup ChemGroups2,
                             post \in {<<>>, <<"H">>}}
    \cup ChemOtherInputs

ChemInit ==
    /\ chemInput \in ChemInputs
    /\ chemFormula = chemInput
    /\ chemPc = "expand"
    /\ chemResult = NoComposition

ChemIdle ==
    /\ chemInput = <<>>
    /\ chemFormula = <<>>
    /\ chemPc = "expand"
    /\ chemResult = NoComposition

\* the other scripts do not move while parse_formula runs
ChemFrame == UNCHANGED <<pwVars, todoVars, portVars, finVars, sharedVars, pomVars, txVars, capVars>>

HasOpenBracket(s) == \E i \in 1..Len(s) : s[i] \in OpenBrackets

\* lines 170-190: one iteration of the while loop that rewrites a group
ExpandGroup ==
    /\ chemPc = "expand"
    /\ HasOpenBracket(chemFormula)
    /\ GroupSearch(chemFormula).found
    /\ chemFormula' = ExpandOnce(chemFormula)
    /\ UNCHANGED <<chemInput, chemPc, chemResult>>
    /\ ChemFrame

\* lines 170-174: the loop ends, no bracket being left or the pattern not matching
FinishExpansion ==
    /\ chemPc = "expand"
    /\ ~HasOpenBracket(chemFormula) \/ ~GroupSearch(chemFormula).found
    /\ chemPc' = "count"
    /\ UNCHANGED <<chemInput, chemFormula, chemResult>>
    /\ ChemFrame

\* lines 193-205: the expanded formula is counted and the dict returned
ReturnComposition ==
    /\ chemPc = "count"
    /\ CountElements(chemFormula).kind = "dict"
    /\ chemResult' = CountElements(chemFormula)
    /\ chemPc' = "returned"
    /\ UNCHANGED <<chemInput, chemFormula>>
    /\ ChemFrame

\* lines 200-201: raise ValueError(f"Unknown element: {element}")
RaiseUnknownElement ==
    /\ chemPc = "count"
    /\ CountElements(chemFormula).kind = "ValueError"
    /\ chemResult' = CountElements(chemFormula)
    /\ chemPc' = "raised"
    /\ UNCHANGED <<chemInput, chemFormula>>
    /\ ChemFrame

ChemNext ==
    \/ ExpandGroup
    \/ FinishExpansion
    \/ ReturnComposition
    \/ RaiseUnknownElement

\* C4's reading of a formula: the counts of a group are multiplied by the number
\* that follows its closing bracket (1 when absent) and added to the counts around it
ScaledInto(outer, inner, m) ==
    [e \in DOMAIN outer \cup DOMAIN inner |->
        (IF e \in DOMAIN outer THEN outer[e] ELSE 0)
        + m * (IF e \in DOMAIN inner THEN inner[e] ELSE 0)]

RECURSIVE ExpandedCounts(_, _, _)
ExpandedCounts(s, p, stack) ==
    LET n == Len(stack) IN
    IF p > Len(s) THEN stack[n]
    ELSE IF s[p] \in OpenBrackets THEN ExpandedCounts(s, p + 1, Append(stack, EmptyDict))
    ELSE IF s[p] \in CloseBrackets
    THEN LET ds == DigitsFrom(s, p + 1) IN
         ExpandedCounts(s, p + 1 + Len(ds),
                        Append(SubSeq(stack, 1, n - 2), ScaledInto(stack[n - 1], stack[n], CountOf(ds))))
    ELSE IF s[p] \in UpperChars
    THEN LET el == IF p + 1 <= Len(s) /\ s[p + 1] \in LowerChars
                   THEN <<s[p], s[p + 1]>> ELSE <<s[p]>>
             ds == DigitsFrom(s, p + Len(el))
         IN ExpandedCounts(s, p + Len(el) + Len(ds),
                           Append(SubSeq(stack, 1, n - 1), AddCount(stack[n], el, CountOf(ds))))
    ELSE ExpandedCounts(s, p + 1, stack)

\* the brackets of s from position p on close the open ones of `open`, in order
RECURSIVE BracketsMatch(_, _, _)
BracketsMatch(s, p, open) ==
    IF p > Len(s) THEN open = <<>>
    ELSE IF s[p] \in OpenBrackets THEN BracketsMatch(s, p + 1, Append(open, s[p]))
    ELSE IF s[p] \in CloseBrackets
    THEN /\ open # <<>>
         /\ open[Len(open)] = (IF s[p] = ")" THEN "(" ELSE "[")
         /\ s[p - 1] \notin OpenBrackets
         /\ BracketsMatch(s, p + 1, SubSeq(open, 1, Len(open) - 1))
    ELSE BracketsMatch(s, p + 1, open)

\* a formula of known elements, counts and properly nested non-empty groups
WellFormedFormula(s) ==
    /\ s # <<>>
    /\ BracketsMatch(s, 1, <<>>)
    /\ \A i \in 1..Len(s) :
         /\ s[i] \in UpperChars \cup LowerChars \cup DigitChars \cup OpenBrackets \cup CloseBrackets
         /\ s[i] \in LowerChars => i > 1 /\ s[i - 1] \in UpperChars
         /\ s[i] \in DigitChars => i > 1 /\ s[i - 1] \notin OpenBrackets
    /\ \A i \in 1..Len(ElementMatches(s, 1)) : ElementMatches(s, 1)[i].element \in PERIODIC_TABLE

\* C4: for a well-formed formula parse_formula returns, for each element, the
\* count of the formula with every bracketed group (round or square, nested or
\* not) multiplied out by its trailing multiplier, 1 when absent; "Ca(OH)2"
\* gives {Ca:1, O:2, H:2} and "Fe2(SO4)3" gives {Fe:2, S:3, O:12}.
C4_ParseFormulaMultipliesGroups ==
    (chemPc \in {"returned", "raised"} /\ WellFormedFormula(chemInput)) =>
        /\ chemResult.kind = "dict"
        /\ chemResult.comp = ExpandedCounts(chemInput, 1, <<EmptyDict>>)
        /\ chemInput = <<"C", "a", "(", "O", "H", ")", "2">>
             => chemResult.comp = AddCount(AddCount(AddCount(EmptyDict, <<"C", "a">>, 1), <<"O">>, 2), <<"H">>, 2)
        /\ chemInput = <<"F", "e", "2", "(", "S", "O", "4", ")", "3">>
             => chemResult.comp = AddCount(AddCount(AddCount(EmptyDict, <<"F", "e">>, 2), <<"S">>, 3), <<"O">>, 12)

(***************************************************************************)
(* port_watcher.py: check_port, scan_ports and main                        *)
(***************************************************************************)

DEFAULT_START_PORT == 8000

DEFAULT_END_PORT == 9000

\* the bounds main checks its port arguments against
MIN_PORT == 1

MAX_PORT == 65535

\* the longest range the model scans; the default range has 1001 ports
MaxScanLen == 1001

\* the most listeners bound on the loopback interface at once
MaxListeners == 2

ListenerCandidates == {1, 2, 3, 8001, MAX_PORT}

\* the parsed command line: -p (absent: port_given is FALSE), -s, -e, and which
\* of --manual, --examples, --help was given
PortArgs(given, p, s, e, doc) ==
    [port_given |-> given, port |-> p, start |-> s, end |-> e, doc |-> doc]

PortCommandLines ==
    {PortArgs(TRUE, p, DEFAULT_START_PORT, DEFAULT_END_PORT, "none") :
        p \in {-1, 0, 1, 2, MAX_PORT, MAX_PORT + 1}}
    \cup {PortArgs(FALSE, 0, s, e, "none") :
            s \in {0, 1, 2, 3, DEFAULT_START_PORT, MAX_PORT + 1},
            e \in {0, 1, 2, 3, DEFAULT_END_PORT, MAX_PORT, MAX_PORT + 1}}
    \cup {PortArgs(TRUE, 2, 0, MAX_PORT + 1, "none")}
    \cup {PortArgs(g, 0, 1, 2, doc) : g \in BOOLEAN, doc \in {"manual", "examples", "help"}}

\* `if args.port:` is false for an absent -p and for -p 0
PortOptionTruthy(args) == args.port_given /\ args.port # 0

InPortRange(p) == MIN_PORT <= p /\ p <= MAX_PORT

\* lines 463-474: whether main returns 1 for the arguments
ArgumentsRejected(args) ==
    IF PortOptionTruthy(args)
    THEN ~InPortRange(args.port)
    ELSE \/ ~InPortRange(args.start) \/ ~InPortRange(args.end)
         \/ args.start > args.end

\* lines 467, 475-476: the range main scans
ScanStart(args) == IF PortOptionTruthy(args) THEN args.port ELSE args.start

ScanEnd(args) == IF PortOptionTruthy(args) THEN args.port ELSE args.end

\* range(start_port, end_port) in place of range(start_port, end_port + 1)
ports_to_scan_short(first, last) ==
    [i \in 1..(last - first) |-> first + i - 1]

\* range(start_port, end_port + 1), in the order the loop visits it
ports_to_scan(first, last) ==
    [i \in 1..(last - first + 1) |-> first + i - 1]

\* what sock.connect_ex((localhost, port)) does: it returns 0 when the connection
\* is made, an errno when the C connect fails (refused, timed out), or raises
ECONNREFUSED == 111

EWOULDBLOCK == 11

Connected == [raised |-> FALSE, code |-> 0]

Refused == [raised |-> FALSE, code |-> ECONNREFUSED]

TimedOut == [raised |-> FALSE, code |-> EWOULDBLOCK]

SocketError == [raised |-> TRUE, code |-> 0]

NoConnect == [raised |-> FALSE, code |-> -1]

\* a listener accepts within the timeout; with none the connect is refused,
\* times out (a dropped packet) or fails with a socket error
ConnectOutcomes(port, listeners) ==
    IF port \in listeners THEN {Connected} ELSE {Refused, TimedOut, SocketError}

\* check_port that takes a socket error for a busy port
check_port_error_busy(outcome) == IF outcome.raised THEN TRUE ELSE outcome.code = 0

\* check_port(port), given what connect_ex did
check_port(outcome) == IF outcome.raised THEN FALSE ELSE outcome.code = 0

NoExit == -1

PortInit ==
    /\ portArgs \in {a \in PortCommandLines :
                        ArgumentsRejected(a) \/ a.doc # "none"
                        \/ ScanEnd(a) - ScanStart(a) + 1 <= MaxScanLen}
    /\ portListeners \in {L \in SUBSET ListenerCandidates : Cardinality(L) <= MaxListeners}
    /\ portPc = "main"
    /\ start_port = 0
    /\ end_port = 0
    /\ scanIndex = 0
    /\ busy_ports = <<>>
    /\ free_ports = <<>>
    /\ portProbes = <<>>
    /\ lastConnect = NoConnect
    /\ scan_time = 0
    /\ portExit = NoExit

PortIdle ==
    /\ portArgs = PortArgs(FALSE, 0, DEFAULT_START_PORT, DEFAULT_END_PORT, "none")
    /\ portListeners = {}
    /\ portPc = "main"
    /\ start_port = 0
    /\ end_port = 0
    /\ scanIndex = 0
    /\ busy_ports = <<>>
    /\ free_ports = <<>>
    /\ portProbes = <<>>
    /\ lastConnect = NoConnect
    /\ scan_time = 0
    /\ portExit = NoExit

\* the other scripts do not move while the port watcher runs
PortFrame == UNCHANGED <<pwVars, todoVars, chemVars, finVars, sharedVars, pomVars, txVars, capVars>>

\* lines 449-460: --manual, --examples or --help prints and returns 0
ShowDocumentation ==
    /\ portPc = "main"
    /\ portArgs.doc # "none"
    /\ portPc' = "exited"
    /\ portExit' = 0
    /\ UNCHANGED <<portArgs, portListeners, start_port, end_port, scanIndex, busy_ports,
                   free_ports, portProbes, lastConnect, scan_time>>
    /\ PortFrame

\* lines 463-474: an argument error is printed and main returns 1
RejectArguments ==
    /\ portPc = "main"
    /\ portArgs.doc = "none"
    /\ ArgumentsRejected(portArgs)
    /\ portPc' = "exited"
    /\ portExit' = 1
    /\ UNCHANGED <<portArgs, portListeners, start_port, end_port, scanIndex, busy_ports,
                   free_ports, portProbes, lastConnect, scan_time>>
    /\ PortFrame

\* lines 467-476, 491-493 and 94-96: the range is fixed and scan_ports entered
StartScan ==
    /\ portPc = "main"
    /\ portArgs.doc = "none"
    /\ ~ArgumentsRejected(portArgs)
    /\ start_port' = ScanStart(portArgs)
    /\ end_port' = ScanEnd(portArgs)
    /\ scanIndex' = 1
    /\ busy_ports' = <<>>
    /\ free_ports' = <<>>
    /\ portPc' = "scanning"
    /\ UNCHANGED <<portArgs, portListeners, portProbes, lastConnect, scan_time, portExit>>
    /\ PortFrame

\* lines 119-139: one iteration of the loop, check_port(port) and the append
ProbePort ==
    /\ portPc = "scanning"
    /\ scanIndex <= Len(ports_to_scan(start_port, end_port))
    /\ LET port == ports_to_scan(start_port, end_port)[scanIndex] IN
       \E outcome \in ConnectOutcomes(port, portListeners) :
          /\ lastConnect' = outcome
          /\ portProbes' = Append(portProbes, port)
          /\ IF check_port(outcome)
             THEN busy_ports' = Append(busy_ports, port) /\ UNCHANGED free_ports
             ELSE free_ports' = Append(free_ports, port) /\ UNCHANGED busy_ports
    /\ scanIndex' = scanIndex + 1
    /\ UNCHANGED <<portArgs, portListeners, portPc, start_port, end_port, scan_time, portExit>>
    /\ PortFrame

\* lines 144-146: the loop is over; scan_time is the clock's difference, which
\* is 0 when the clock did not tick during the scan
ReturnScan ==
    /\ portPc = "scanning"
    /\ scanIndex > Len(ports_to_scan(start_port, end_port))
    /\ scan_time' \in {0, 1}
    /\ portPc' = "summary"
    /\ UNCHANGED <<portArgs, portListeners, start_port, end_port, scanIndex, busy_ports,
                   free_ports, portProbes, lastConnect, portExit>>
    /\ PortFrame

\* lines 497-499 and 504-506: print_summary divides by scan_time (line 162);
\* the ZeroDivisionError is caught by main, which then returns 1
PrintSummary ==
    /\ portPc = "summary"
    /\ portExit' = IF scan_time = 0 THEN 1 ELSE 0
    /\ portPc' = "exited"
    /\ UNCHANGED <<portArgs, portListeners, start_port, end_port, scanIndex, busy_ports,
                   free_ports, portProbes, lastConnect, scan_time>>
    /\ PortFrame

\* lines 501-503: KeyboardInterrupt during the scan
InterruptScan ==
    /\ portPc = "scanning"
    /\ portExit' = 1
    /\ portPc' = "exited"
    /\ UNCHANGED <<portArgs, portListeners, start_port, end_port, scanIndex, busy_ports,
                   free_ports, portProbes, lastConnect, scan_time>>
    /\ PortFrame

PortNext ==
    \/ ShowDocumentation
    \/ RejectArguments
    \/ StartScan
    \/ ProbePort
    \/ ReturnScan
    \/ PrintSummary
    \/ InterruptScan

StrictlyAscending(seq) == \A i \in 1..(Len(seq) - 1) : seq[i] < seq[i + 1]

SeqRange(seq) == {seq[i] : i \in 1..Len(seq)}

\* C5: check_port reports busy exactly when the connect completed (connect_ex
\* returned 0); a refusal, a timeout and a socket error report free.  So a
\* scan of a range without any listener returns no busy port and every port
\* free, and a scan of a single port that has a listener returns it as busy.
C5_BusyIffConnected ==
    /\ portProbes # <<>> =>
          LET p == portProbes[Len(portProbes)] IN
          /\ lastConnect = Connected
                <=> (busy_ports # <<>> /\ busy_ports[Len(busy_ports)] = p)
          /\ lastConnect \in {Refused, TimedOut, SocketError}
                <=> (free_ports # <<>> /\ free_ports[Len(free_ports)] = p)
    /\ portPc = "summary" =>
          /\ (start_port..end_port) \cap portListeners = {}
                => busy_ports = <<>> /\ SeqRange(free_ports) = start_port..end_port
          /\ (start_port = end_port /\ start_port \in portListeners)
                => busy_ports = <<start_port>> /\ free_ports = <<>>

\* the scan of the single port 2, which has a listener, has returned
C5_Witness ==
    /\ portPc = "summary"
    /\ start_port = 2 /\ end_port = 2
    /\ 2 \in portListeners
    /\ lastConnect = Connected
    /\ busy_ports = <<2>>

\* C7: when scan_ports(start, end) with start <= end returns, the busy list
\* and the free list are strictly ascending and disjoint, together they hold
\* every port of start..end exactly once, and check_port was called once per
\* port in ascending order.
C7_ScanPartitionsRange ==
    portPc = "summary" =>
        /\ StrictlyAscending(busy_ports)
        /\ StrictlyAscending(free_ports)
        /\ SeqRange(busy_ports) \cap SeqRange(free_ports) = {}
        /\ SeqRange(busy_ports) \cup SeqRange(free_ports) = start_port..end_port
        /\ Len(busy_ports) + Len(free_ports) = end_port - start_port + 1
        /\ Len(portProbes) = end_port - start_port + 1
        /\ \A i \in 1..Len(portProbes) : portProbes[i] = start_port + i - 1

\* ports 1..3 were scanned with a listener on port 2 only
C7_Witness ==
    /\ portPc = "summary"
    /\ start_port = 1 /\ end_port = 3
    /\ busy_ports = <<2>>
    /\ free_ports = <<1, 3>>
    /\ portProbes = <<1, 2, 3>>

\* C8's invalid arguments: a -p port outside 1..65535 or, without -p, a start or
\* end outside 1..65535 or start > end
InvalidPortArguments(args) ==
    IF args.port_given
    THEN args.port < 1 \/ args.port > 65535
    ELSE \/ args.start < 1 \/ args.start > 65535
         \/ args.end < 1 \/ args.end > 65535
         \/ args.start > args.end

\* C8: main (asked for no documentation) rejects invalid port arguments before
\* any port is probed and returns 1; with valid arguments a completed scan
\* returns 0.
C8_InvalidArgumentsRejected ==
    portArgs.doc = "none" =>
        /\ InvalidPortArguments(portArgs) =>
              /\ portProbes = <<>>
              /\ portPc \in {"main", "exited"}
              /\ portPc = "exited" => portExit = 1
        /\ (~InvalidPortArguments(portArgs) /\ portPc = "exited"
             /\ Len(portProbes) = end_port - start_port + 1)
              => portExit = 0

(***************************************************************************)
(* finance_tracker.py: FinanceTracker, its data file, backup and temp file  *)
(***************************************************************************)

\* the most transactions the tracker holds in one run
MaxFinTx == 3

\* the records add_transaction appends (lines 160-163)
FinRecord(t, a, d, c, day) ==
    [type |-> t, amount |-> a, description |-> d, category |-> c, date |-> day]

FinTransactions ==
    { FinRecord("income", 1200, "salary", "job", "2024-01-05"),
      FinRecord("expense", 40, "lunch", "food", "2024-01-06") }

\* a path that os.path.exists reports as absent
NoFinFile == [exists |-> FALSE, text |-> <<>>]

FinFileOf(text) == [exists |-> TRUE, text |-> text]

\* json.dump writes a stream of tokens; an object of the transactions list
\* is one token carrying the record
JsonTok(s) == [tok |-> s]

JsonObject(rec) == [tok |-> "object", value |-> rec]

\* a member name of the top-level object
JsonKey(name) == [tok |-> "key", name |-> name]

\* a Python value that is not a list or a dict: its type and, for a str, its
\* text cut into pieces
PyScalar(type, text) == [type |-> type, text |-> text]

PyList(items) == [type |-> "list", items |-> items]

PyDict(keys, vals) == [type |-> "dict", keys |-> keys, vals |-> vals]

\* a number, null, true or a string in a JSON text
JsonScalar(type, text) == [tok |-> "scalar", value |-> PyScalar(type, text)]

\* a byte that is not UTF-8
BadByte == JsonTok("0xff")

RECURSIVE JsonItems(_)
JsonItems(items) ==
    IF items = <<>> THEN <<>>
    ELSE IF Len(items) = 1 THEN <<JsonObject(items[1])>>
    ELSE <<JsonObject(items[1]), JsonTok(",")>> \o JsonItems(Tail(items))

JsonArray(items) == <<JsonTok("[")>> \o JsonItems(items) \o <<JsonTok("]")>>

\* json.dump(self.data, f, indent=2): keys in insertion order
json_dump(data) ==
    <<JsonTok("{"), JsonKey("transactions"), JsonTok(":")>>
    \o JsonArray(data.transactions)
    \o <<JsonTok(","), JsonKey("goals"), JsonTok(":")>>
    \o JsonArray(data.goals)
    \o <<JsonTok("}")>>

JsonFail == [ok |-> FALSE, items |-> <<>>, next |-> 0]

\* the items of an array from position i on, up to and including its "]"
RECURSIVE JsonParseItems(_, _, _)
JsonParseItems(text, i, first) ==
    IF i > Len(text) THEN JsonFail
    ELSE IF first /\ text[i] = JsonTok("]")
         THEN [ok |-> TRUE, items |-> <<>>, next |-> i + 1]
    ELSE IF text[i].tok \notin {"object", "scalar"} \/ i + 1 > Len(text) THEN JsonFail
    ELSE IF text[i + 1] = JsonTok("]")
         THEN [ok |-> TRUE, items |-> <<text[i].value>>, next |-> i + 2]
    ELSE IF text[i + 1] # JsonTok(",") THEN JsonFail
    ELSE LET rest == JsonParseItems(text, i + 2, FALSE)
         IN  IF rest.ok
             THEN [ok |-> TRUE, items |-> <<text[i].value>> \o rest.items,
                   next |-> rest.next]
             ELSE JsonFail

JsonParseArray(text, i) ==
    IF i > Len(text) \/ text[i] # JsonTok("[") THEN JsonFail
    ELSE JsonParseItems(text, i + 1, TRUE)

JsonNoValue == [ok |-> FALSE, value |-> PyScalar("NoneType", <<>>), next |-> 0]

\* a member value from position i on: a scalar or an array
JsonParseValue(text, i) ==
    IF i > Len(text) THEN JsonNoValue
    ELSE IF text[i].tok = "scalar"
         THEN [ok |-> TRUE, value |-> text[i].value, next |-> i + 1]
    ELSE LET arr == JsonParseArray(text, i)
         IN  IF arr.ok THEN [ok |-> TRUE, value |-> PyList(arr.items), next |-> arr.next]
             ELSE JsonNoValue

JsonNoMembers == [ok |-> FALSE, keys |-> <<>>, vals |-> <<>>, next |-> 0]

\* the members of an object from position i on, up to and including its "}"
RECURSIVE JsonParseMembers(_, _, _)
JsonParseMembers(text, i, first) ==
    IF i > Len(text) THEN JsonNoMembers
    ELSE IF first /\ text[i] = JsonTok("}")
         THEN [ok |-> TRUE, keys |-> <<>>, vals |-> <<>>, next |-> i + 1]
    ELSE IF text[i].tok # "key" \/ i + 1 > Len(text) \/ text[i + 1] # JsonTok(":")
         THEN JsonNoMembers
    ELSE LET val == JsonParseValue(text, i + 2) IN
         IF ~val.ok \/ val.next > Len(text) THEN JsonNoMembers
         ELSE IF text[val.next] = JsonTok("}")
              THEN [ok |-> TRUE, keys |-> <<text[i].name>>, vals |-> <<val.value>>,
                    next |-> val.next + 1]
         ELSE IF text[val.next] # JsonTok(",") THEN JsonNoMembers
         ELSE LET rest == JsonParseMembers(text, val.next + 1, FALSE)
              IN  IF rest.ok
                  THEN [ok |-> TRUE, keys |-> <<text[i].name>> \o rest.keys,
                        vals |-> <<val.value>> \o rest.vals, next |-> rest.next]
                  ELSE JsonNoMembers

\* json.load(f): the value of a text that is one JSON document, or
\* JSONDecodeError for anything else, an empty or cut-short text included
json_load(text) ==
    LET bad == [ok |-> FALSE, value |-> PyScalar("NoneType", <<>>)] IN
    IF text = <<>> THEN bad
    ELSE IF text[1].tok = "scalar"
         THEN IF Len(text) = 1 THEN [ok |-> TRUE, value |-> text[1].value] ELSE bad
    ELSE IF text[1] = JsonTok("[")
         THEN LET arr == JsonParseArray(text, 1)
              IN  IF arr.ok /\ arr.next = Len(text) + 1
                  THEN [ok |-> TRUE, value |-> PyList(arr.items)] ELSE bad
    ELSE IF text[1] = JsonTok("{")
         THEN LET obj == JsonParseMembers(text, 2, TRUE)
              IN  IF obj.ok /\ obj.next = Len(text) + 1
                  THEN [ok |-> TRUE, value |-> PyDict(obj.keys, obj.vals)] ELSE bad
    ELSE bad

EmptyFinData == [transactions |-> <<>>, goals |-> <<>>]

\* `key in data`: "ok" is FALSE where Python raises TypeError (data is not a
\* container); a list holds the key as an item, a str as a piece of its text
KeyIn(key, data) ==
    IF data.type = "dict"
    THEN [ok |-> TRUE, found |-> \E i \in 1..Len(data.keys) : data.keys[i] = key]
    ELSE IF data.type = "list"
    THEN [ok |-> TRUE,
          found |-> \E i \in 1..Len(data.items) : data.items[i] = PyScalar("str", <<key>>)]
    ELSE IF data.type = "str"
    THEN [ok |-> TRUE, found |-> \E i \in 1..Len(data.text) : data.text[i] = key]
    ELSE [ok |-> FALSE, found |-> FALSE]

\* data[key] of a dict that has the key: the value of its last member of that name
DictGet(data, key) ==
    LET at == {i \in 1..Len(data.keys) : data.keys[i] = key}
    IN  data.vals[CHOOSE i \in at : \A j \in at : j <= i]

Loaded(data) == [raised |-> "", data |-> data]

LoadRaised(error) == [raised |-> error, data |-> EmptyFinData]

\* load_data (lines 16-42): what it returns, or the exception that leaves it;
\* only JSONDecodeError and IOError are caught (line 40)
load_data(file) ==
    IF ~file.exists THEN Loaded(EmptyFinData)
    ELSE IF \E i \in 1..Len(file.text) : file.text[i] = BadByte
         THEN LoadRaised("UnicodeDecodeError")
    ELSE LET doc == json_load(file.text) IN
         IF ~doc.ok THEN Loaded(EmptyFinData)
         ELSE LET data == doc.value
                  hasT == KeyIn("transactions", data)
                  hasG == KeyIn("goals", data)
              IN  IF ~hasT.ok THEN LoadRaised("TypeError")
                  ELSE IF ~hasT.found THEN Loaded(EmptyFinData)
                  ELSE IF ~hasG.ok THEN LoadRaised("TypeError")
                  ELSE IF ~hasG.found THEN Loaded(EmptyFinData)
                  ELSE IF data.type # "dict" THEN LoadRaised("TypeError")
                  ELSE LET t == DictGet(data, "transactions")
                           g == DictGet(data, "goals")
                       IN  Loaded([transactions |-> IF t.type = "list" THEN t.items ELSE <<>>,
                                   goals |-> IF g.type = "list" THEN g.items ELSE <<>>])

\* what a write that raised part-way leaves in the file it had opened: the
\* file truncated by open(..., 'w') with nothing written yet, or the text
\* without its end
CutShort(text) == { FinFileOf(SubSeq(text, 1, n)) : n \in {0, Len(text) - 1} }

NoSave == [backup |-> "none", returned |-> "none"]

\* the other scripts do not move while the finance tracker runs
FinFrame == UNCHANGED <<pwVars, todoVars, chemVars, portVars, sharedVars, pomVars, txVars, capVars>>

\* before FinanceTracker() is constructed in a directory with no data file
FinInit ==
    /\ finFile = NoFinFile
    /\ finBak = NoFinFile
    /\ finTmp = NoFinFile
    /\ finData = EmptyFinData
    /\ finPc = "start"
    /\ finLast = NoSave

\* __init__ (lines 10-14): self.data = self.load_data(); an exception of
\* load_data ends the program before run() is entered
FinConstruct ==
    /\ finPc = "start"
    /\ LET loaded == load_data(finFile) IN
       IF loaded.raised = ""
       THEN /\ finData' = loaded.data
            /\ finPc' = "menu"
       ELSE /\ finData' = finData
            /\ finPc' = "crashed"
    /\ UNCHANGED <<finFile, finBak, finTmp, finLast>>
    /\ FinFrame

\* add_transaction (lines 117-164) once its prompts are answered: the record
\* is appended and save_data is entered; self.data is a dict of two keys, so
\* the `if not self.data` return of line 46 is not taken
AddTransaction ==
    /\ finPc = "menu"
    /\ Len(finData.transactions) < MaxFinTx
    /\ \E rec \in FinTransactions :
          finData' = [finData EXCEPT !.transactions = Append(@, rec)]
    /\ finPc' = "backup"
    /\ finLast' = [backup |-> "none", returned |-> "running"]
    /\ UNCHANGED <<finFile, finBak, finTmp>>
    /\ FinFrame

\* save_data lines 51-57: copy the data file to .bak when it exists; a copy
\* that raises is reported and the save goes on
BackupCopy ==
    /\ finPc = "backup"
    /\ IF ~finFile.exists
       THEN /\ finBak' = finBak
            /\ finLast' = [finLast EXCEPT !.backup = "skipped"]
       ELSE \/ /\ finBak' = finFile
               /\ finLast' = [finLast EXCEPT !.backup = "copied"]
            \/ /\ finBak' \in {finBak} \cup CutShort(finFile.text)
               /\ finLast' = [finLast EXCEPT !.backup = "failed"]
    /\ finPc' = "write"
    /\ UNCHANGED <<finFile, finTmp, finData>>
    /\ FinFrame

\* save_data lines 60-63: json.dump into finance_data.json.tmp; an exception
\* goes to the handler of line 73
WriteTemp ==
    /\ finPc = "write"
    /\ \/ /\ finTmp' = FinFileOf(json_dump(finData))
          /\ finPc' = "replace"
       \/ /\ finTmp' \in {finTmp} \cup CutShort(json_dump(finData))
          /\ finPc' = "restore"
    /\ UNCHANGED <<finFile, finBak, finData, finLast>>
    /\ FinFrame

\* save_data lines 66-71: os.replace / os.rename the temp file over the data
\* file and return True; an exception goes to the handler of line 73
ReplaceFile ==
    /\ finPc = "replace"
    /\ \/ /\ finFile' = finTmp
          /\ finTmp' = NoFinFile
          /\ finLast' = [finLast EXCEPT !.returned = "True"]
          /\ finPc' = "menu"
       \/ /\ UNCHANGED <<finFile, finTmp, finLast>>
          /\ finPc' = "restore"
    /\ UNCHANGED <<finBak, finData>>
    /\ FinFrame

\* save_data lines 73-82: after an error, move .bak over the data file when
\* .bak exists, and return False
RestoreBackup ==
    /\ finPc = "restore"
    /\ IF finBak.exists
       THEN \/ /\ finFile' = finBak
               /\ finBak' = NoFinFile
            \/ UNCHANGED <<finFile, finBak>>
       ELSE UNCHANGED <<finFile, finBak>>
    /\ finLast' = [finLast EXCEPT !.returned = "False"]
    /\ finPc' = "menu"
    /\ UNCHANGED <<finTmp, finData>>
    /\ FinFrame

\* KeyboardInterrupt or a kill during save_data: no handler of save_data
\* catches it and the process ends; a file being written stays cut short
InterruptSave ==
    /\ finPc \in {"backup", "write", "replace", "restore"}
    /\ IF finPc = "backup" /\ finFile.exists
       THEN finBak' \in {finBak} \cup CutShort(finFile.text)
       ELSE finBak' = finBak
    /\ IF finPc = "write"
       THEN finTmp' \in {finTmp} \cup CutShort(json_dump(finData))
       ELSE finTmp' = finTmp
    /\ finLast' = [finLast EXCEPT !.returned = "interrupted"]
    /\ finPc' = "start"
    /\ UNCHANGED <<finFile, finData>>
    /\ FinFrame

\* run (lines 276-302): choice 6 ends the program
FinExit ==
    /\ finPc = "menu"
    /\ finPc' = "start"
    /\ UNCHANGED <<finFile, finBak, finTmp, finData, finLast>>
    /\ FinFrame

FinNext ==
    \/ FinConstruct
    \/ AddTransaction
    \/ BackupCopy
    \/ WriteTemp
    \/ ReplaceFile
    \/ RestoreBackup
    \/ InterruptSave
    \/ FinExit

\* the step on which save_data returns True
SaveReturnsTrue == finPc = "replace" /\ finPc' = "menu"

\* C6: after every save_data that returns True the data file is valid JSON
\* holding the transactions in insertion order (two saves from no file leave
\* both records), and when the data file existed before the save, .bak equals
\* the content the data file had immediately before that save.
C6_BackupEqualsPriorContent ==
    [][SaveReturnsTrue =>
          /\ finFile'.exists
          /\ json_load(finFile'.text).ok
          /\ load_data(finFile').data.transactions = finData.transactions
          /\ finFile.exists => finBak' = finFile]_vars

\* C14: at every point of a save, interruptions included, finance_data.json
\* holds the complete previous state or the complete new state: a step that
\* changes the data file installs the complete JSON text of self.data.
C14_DataFileNeverPartial ==
    [][finFile' # finFile =>
          /\ finFile'.exists
          /\ json_load(finFile'.text).ok
          /\ finFile' = FinFileOf(json_dump(finData))]_vars

\* the step on which save_data returns False
SaveReturnsFalse == finPc = "restore" /\ finPc' = "menu"

\* C25: a save_data that fails returns False and leaves finance_data.json with
\* the content of the most recent successful save, never an older state. The
\* data file is written by no step of a save before the rename, so it holds
\* that content when the failure is handled, and the claim is that the
\* handler leaves it so.
C25_FailedSaveKeepsLastSaved ==
    [][SaveReturnsFalse => finLast'.returned = "False" /\ finFile' = finFile]_vars

\* the lists of at most n records a well-formed data file can hold
FinLists(n) == UNION {[1..k -> FinTransactions] : k \in 0..n}

\* what a member of the persisted object can be: a list, or something else
PersistedValues ==
    {JsonArray(items) : items \in FinLists(MaxFinTx)}
    \cup {<<JsonScalar("int", <<"5">>)>>, <<JsonScalar("NoneType", <<"null">>)>>,
          <<JsonScalar("str", <<"x">>)>>}

\* objects with both keys, one of them or none
PersistedObjects ==
    {<<JsonTok("{"), JsonKey("transactions"), JsonTok(":")>> \o t
       \o <<JsonTok(","), JsonKey("goals"), JsonTok(":")>> \o g \o <<JsonTok("}")>> :
       t \in PersistedValues, g \in PersistedValues}
    \cup {<<JsonTok("{"), JsonKey(k), JsonTok(":")>> \o v \o <<JsonTok("}")>> :
            k \in {"transactions", "goals"}, v \in PersistedValues}
    \cup {<<JsonTok("{"), JsonTok("}")>>}

\* valid JSON that is not an object
PersistedOthers ==
    {<<JsonScalar("int", <<"5">>)>>, <<JsonScalar("float", <<"3.5">>)>>,
     <<JsonScalar("NoneType", <<"null">>)>>, <<JsonScalar("bool", <<"true">>)>>,
     <<JsonScalar("str", <<"x">>)>>,
     <<JsonScalar("str", <<"transactions", " ", "goals">>)>>,
     <<JsonTok("["), JsonTok("]")>>,
     <<JsonTok("["), JsonScalar("str", <<"transactions">>), JsonTok("]")>>,
     <<JsonTok("["), JsonScalar("str", <<"transactions">>), JsonTok(","),
       JsonScalar("str", <<"goals">>), JsonTok("]")>>}
    \cup {JsonArray(items) : items \in FinLists(1)}

\* texts that are not JSON: empty, cut short, or not UTF-8
PersistedCorrupt ==
    {<<>>, <<BadByte>>, <<JsonTok("{"), JsonTok("{"), JsonTok("}")>>}
    \cup {f.text : f \in UNION {CutShort(doc) : doc \in PersistedObjects}}

PersistedFiles ==
    {NoFinFile}
    \cup {FinFileOf(text) : text \in PersistedObjects \cup PersistedOthers \cup PersistedCorrupt}

\* the program is started in a directory whose data file anything has written
LoadInit ==
    /\ finFile \in PersistedFiles
    /\ finBak = NoFinFile
    /\ finTmp = NoFinFile
    /\ finData = EmptyFinData
    /\ finPc = "start"
    /\ finLast = NoSave

\* C15: load_data never fails on malformed persisted state: the program gets
\* past the constructor whatever the data file holds, with the lists as they
\* are stored when the file is well formed and an empty list or the empty
\* state for whatever is missing or malformed.
C15_LoadDataNeverFails ==
    /\ finPc # "crashed"
    /\ finPc = "menu" =>
          \/ finFile.exists /\ json_dump(finData) = finFile.text
          \/ finData.transactions = <<>>
          \/ finData.goals = <<>>

(***************************************************************************)
(* todos.txt shared by concurrent writers: two CLI sessions (todo_cli.py)   *)
(* and the Flask app (todo_flask.py), each step of load_todos and           *)
(* save_todos taken on its own                                              *)
(***************************************************************************)

\* the most mutations the writers start, all together
MaxSharedOps == 2

CliProcs == {"cli1", "cli2"}

FlaskProcs == {"flask"}

Writers == CliProcs \cup FlaskProcs

\* what is typed at "New task:" or posted to /add
SharedTasks == {<<"a">>, <<"b">>}

\* every line the writers can store
SharedTexts == SharedTasks \cup {DONE_MARK_SP \o t : t \in SharedTasks}

NoTemp == [exists |-> FALSE, text |-> <<>>]

NoEffect == [added |-> <<>>, removed |-> <<>>]

\* the number of items of todos equal to text
Occurrences(todos, text) == Cardinality({i \in 1..Len(todos) : todos[i] = text})

\* todos.pop(index), index counted from 0
pop(todos, index) == SubSeq(todos, 1, index) \o SubSeq(todos, index + 2, Len(todos))

\* a loop taken to be over before it has written a line
LoopFinished_beforeWriting(todos, k) == k = 0

\* save_todos lines 37-38: the loop `for todo in todos` has written them all
LoopFinished(todos, k) == k = Len(todos)

SharedFrame ==
    UNCHANGED <<pwVars, chemVars, portVars, finVars, pomVars, cliPc, cliTodos, cliLast, txVars, capVars>>

\* no writer has started
SharedInit ==
    /\ shPc = [w \in Writers |-> IF w \in CliProcs THEN "start" ELSE "idle"]
    /\ shSession = [w \in Writers |-> <<>>]
    /\ shSaving = [w \in Writers |-> <<>>]
    /\ shTmp = [w \in Writers |-> NoTemp]
    /\ shWritten = [w \in Writers |-> 0]
    /\ shEffect = [w \in Writers |-> NoEffect]
    /\ shAfter = [w \in Writers |-> "idle"]
    /\ shExpected = [t \in SharedTexts |-> 0]
    /\ shOps = 0

\* save_todos lines 33-36 entered by writer w with the list todos: mkstemp
\* makes an empty temp file of a fresh name; `effect` is what the mutation is
\* to add and remove, `after` where w continues once save_todos returns
EnterSave(w, todos, effect, after) ==
    /\ shSaving' = [shSaving EXCEPT ![w] = todos]
    /\ shTmp' = [shTmp EXCEPT ![w] = FileOf(<<>>)]
    /\ shWritten' = [shWritten EXCEPT ![w] = 0]
    /\ shEffect' = [shEffect EXCEPT ![w] = effect]
    /\ shAfter' = [shAfter EXCEPT ![w] = after]
    /\ shPc' = [shPc EXCEPT ![w] = "write"]
    /\ shOps' = shOps + 1

\* todo_cli main, line 102: todos = load_todos()
SharedMainLoad(w) ==
    /\ w \in CliProcs
    /\ shPc[w] = "start"
    /\ shSession' = [shSession EXCEPT ![w] = load_todos(todoFile)]
    /\ shPc' = [shPc EXCEPT ![w] = "menu"]
    /\ UNCHANGED <<todoFile, shSaving, shTmp, shWritten, shEffect, shAfter,
                   shExpected, shOps>>
    /\ SharedFrame

\* todo_cli choice "2": add_task(task) up to its call of save_todos (lines
\* 53-63); a duplicate returns False and changes nothing
SharedAddTask(w) ==
    /\ w \in CliProcs
    /\ shPc[w] = "menu"
    /\ shOps < MaxSharedOps
    /\ \E typed \in SharedTasks :
         LET task == strip(typed)
             cut == IF Len(task) > MAX_TASK_LEN THEN Slice(task, 0, MAX_TASK_LEN)
                    ELSE task
             todos == load_todos(todoFile)
             normalized == {lower(strip(todos[i])) : i \in 1..Len(todos)}
         IN  /\ lower(cut) \notin normalized
             /\ EnterSave(w, Append(todos, cut),
                          [added |-> cut, removed |-> <<>>], "reload")
    /\ UNCHANGED <<todoFile, shSession, shExpected>>
    /\ SharedFrame

\* todo_cli main, line 122, after add_task returned True: todos = load_todos()
SharedReload(w) ==
    /\ shPc[w] = "reload"
    /\ shSession' = [shSession EXCEPT ![w] = load_todos(todoFile)]
    /\ shPc' = [shPc EXCEPT ![w] = "menu"]
    /\ UNCHANGED <<todoFile, shSaving, shTmp, shWritten, shEffect, shAfter,
                   shExpected, shOps>>
    /\ SharedFrame

\* todo_cli choice "3" with a valid number: todos.pop(index), save_todos(todos)
SharedDelete(w) ==
    /\ w \in CliProcs
    /\ shPc[w] = "menu"
    /\ shOps < MaxSharedOps
    /\ \E index \in 0..(Len(shSession[w]) - 1) :
         /\ shSession' = [shSession EXCEPT ![w] = pop(@, index)]
         /\ EnterSave(w, shSession'[w],
                      [added |-> <<>>, removed |-> shSession[w][index + 1]], "menu")
    /\ UNCHANGED <<todoFile, shExpected>>
    /\ SharedFrame

\* todo_cli choice "4" with a valid number: the item is toggled in the list
\* held in memory and the list is saved
SharedToggle(w) ==
    /\ w \in CliProcs
    /\ shPc[w] = "menu"
    /\ shOps < MaxSharedOps
    /\ \E index \in 0..(Len(shSession[w]) - 1) :
         /\ shSession' = [shSession EXCEPT ![w][index + 1] = toggle_completion(@)]
         /\ EnterSave(w, shSession'[w],
                      [added |-> shSession'[w][index + 1],
                       removed |-> shSession[w][index + 1]], "menu")
    /\ UNCHANGED <<todoFile, shExpected>>
    /\ SharedFrame

\* todo_flask add_todo (lines 177-184) up to its call of save_todos
FlaskAddTodo(w) ==
    /\ w \in FlaskProcs
    /\ shPc[w] = "idle"
    /\ shOps < MaxSharedOps
    /\ \E posted \in SharedTasks :
         LET task == strip(posted) IN
         /\ task # <<>>
         /\ EnterSave(w, Append(load_todos(todoFile), task),
                      [added |-> task, removed |-> <<>>], "idle")
    /\ UNCHANGED <<todoFile, shSession, shExpected>>
    /\ SharedFrame

\* todo_flask delete_todo (lines 187-193) with an index in range, up to its
\* call of save_todos
FlaskDeleteTodo(w) ==
    /\ w \in FlaskProcs
    /\ shPc[w] = "idle"
    /\ shOps < MaxSharedOps
    /\ LET todos == load_todos(todoFile) IN
       \E index \in 0..(Len(todos) - 1) :
         EnterSave(w, pop(todos, index),
                   [added |-> <<>>, removed |-> todos[index + 1]], "idle")
    /\ UNCHANGED <<todoFile, shSession, shExpected>>
    /\ SharedFrame

\* save_todos line 38: f.write(todo + "\n") for the next todo
WriteLine(w) ==
    /\ shPc[w] = "write"
    /\ ~LoopFinished(shSaving[w], shWritten[w])
    /\ shWritten' = [shWritten EXCEPT ![w] = @ + 1]
    /\ shTmp' = [shTmp EXCEPT ![w] = FileOf(WrittenText(shSaving[w], shWritten[w] + 1))]
    /\ UNCHANGED <<todoFile, shPc, shSession, shSaving, shEffect, shAfter,
                   shExpected, shOps>>
    /\ SharedFrame

\* save_todos lines 39-40: flush and fsync once the loop is over
SyncTemp(w) ==
    /\ shPc[w] = "write"
    /\ LoopFinished(shSaving[w], shWritten[w])
    /\ shPc' = [shPc EXCEPT ![w] = "replace"]
    /\ UNCHANGED <<todoFile, shSession, shSaving, shTmp, shWritten, shEffect,
                   shAfter, shExpected, shOps>>
    /\ SharedFrame

\* the count of each text the file should hold once the mutation is in
Expect(expected, effect) ==
    [t \in SharedTexts |->
        expected[t] + (IF t = effect.added THEN 1 ELSE 0)
                    - (IF t = effect.removed THEN 1 ELSE 0)]

\* save_todos line 41: os.replace(tmp_path, path); the temp name is gone, so
\* the finally clause removes nothing, and save_todos returns
ReplacePath(w) ==
    /\ shPc[w] = "replace"
    /\ todoFile' = shTmp[w]
    /\ shTmp' = [shTmp EXCEPT ![w] = NoTemp]
    /\ shExpected' = Expect(shExpected, shEffect[w])
    /\ shPc' = [shPc EXCEPT ![w] = shAfter[w]]
    /\ UNCHANGED <<shSession, shSaving, shWritten, shEffect, shAfter, shOps>>
    /\ SharedFrame

\* the writer is interrupted inside save_todos: the finally clause removes the
\* temp file (lines 42-47), or a kill leaves it behind; the path is not touched
InterruptedSave(w) ==
    /\ shPc[w] \in {"write", "replace"}
    /\ shTmp' \in {shTmp, [shTmp EXCEPT ![w] = NoTemp]}
    /\ shPc' = [shPc EXCEPT ![w] = "exited"]
    /\ UNCHANGED <<todoFile, shSession, shSaving, shWritten, shEffect, shAfter,
                   shExpected, shOps>>
    /\ SharedFrame

SharedNext ==
    \/ \E w \in Writers : SharedMainLoad(w)
    \/ \E w \in Writers : SharedAddTask(w)
    \/ \E w \in Writers : SharedReload(w)
    \/ \E w \in Writers : SharedDelete(w)
    \/ \E w \in Writers : SharedToggle(w)
    \/ \E w \in Writers : FlaskAddTodo(w)
    \/ \E w \in Writers : FlaskDeleteTodo(w)
    \/ \E w \in Writers : WriteLine(w)
    \/ \E w \in Writers : SyncTemp(w)
    \/ \E w \in Writers : ReplacePath(w)
    \/ \E w \in Writers : InterruptedSave(w)

\* no writer is inside a mutation
Quiescent == \A w \in Writers : shPc[w] \in {"start", "menu", "idle", "exited"}

\* C9: writes to the shared file are not lost: once the writers' mutations are
\* complete, the file holds every text as many times as the completed
\* mutations added it, less the times they removed it.
C9_NoLostWrites ==
    Quiescent =>
        \A t \in SharedTexts : Occurrences(load_todos(todoFile), t) = shExpected[t]

\* C10: save_todos never exposes a torn file: every step that changes the
\* file at the path is the os.replace of one writer and installs the complete
\* text of the list that writer is saving, so a load_todos at any point, also
\* after an interrupted save, reads a complete list, the previous or the new.
C10_NoTornFile ==
    [][todoFile' # todoFile =>
          \E w \in Writers :
              /\ shPc[w] = "replace"
              /\ todoFile' = save_todos(shSaving[w])
              /\ load_todos(todoFile') = shSaving[w]]_vars

\* a writer has written the first of its two lines to its temp file while the
\* path still holds the complete one-line list an earlier save installed
C10_Witness ==
    \E w \in Writers :
        /\ shPc[w] = "write"
        /\ shWritten[w] = 1
        /\ Len(shSaving[w]) = 2
        /\ shTmp[w] = FileOf(WrittenText(shSaving[w], 1))
        /\ todoFile.exists
        /\ Len(load_todos(todoFile)) = 1
        /\ todoFile = save_todos(load_todos(todoFile))

(***************************************************************************)
(* pomoban.py: the board's UI thread (main) and the timer thread            *)
(* (timer_loop) sharing timer_running, time_left and active_task_id         *)
(***************************************************************************)

\* the full countdown, 1500 seconds in the source (lines 50 and 168), scaled
FullCountdown == 2

\* the most rows of the tasks table
MaxBoardTasks == 2

\* the most S presses that reach line 166
MaxSPresses == 3

\* line 95: statuses, and flow of move_task (line 22)
Statuses == <<"TODO", "DOING", "DONE">>

\* Python's None for active_task_id; row ids start at 1
NoTask == 0

\* what is typed at "Task Description: "
BoardTexts == {<<>>, <<" ">>, <<"t">>}

\* get_tasks_by_status (lines 17-19): the rows of that status, in rowid order
get_tasks_by_status(rows, status) == SelectSeq(rows, LAMBDA r : r.status = status)

\* flow.index(current_status), counted from 0
FlowIndex(status) == (CHOOSE i \in 1..Len(Statuses) : Statuses[i] = status) - 1

\* move_task without the test of line 24: the index wraps around the flow
move_task_wrapping(rows, task_id, current_status, direction) ==
    LET new_idx == (FlowIndex(current_status) + direction) % Len(Statuses) IN
    [i \in 1..Len(rows) |->
        IF rows[i].id = task_id THEN [rows[i] EXCEPT !.status = Statuses[new_idx + 1]]
        ELSE rows[i]]

\* move_task (lines 21-27): UPDATE tasks SET status = flow[new_idx] WHERE id = task_id
move_task(rows, task_id, current_status, direction) ==
    LET new_idx == FlowIndex(current_status) + direction IN
    IF 0 <= new_idx /\ new_idx < Len(Statuses)
    THEN [i \in 1..Len(rows) |->
             IF rows[i].id = task_id THEN [rows[i] EXCEPT !.status = Statuses[new_idx + 1]]
             ELSE rows[i]]
    ELSE rows

\* add_new_task (lines 29-32): INSERT a row of status TODO; pomos defaults to 0
add_new_task(rows, text) ==
    IF strip(text) # <<>>
    THEN Append(rows, [id |-> Len(rows) + 1, task |-> text, status |-> "TODO", pomos |-> 0])
    ELSE rows

\* add_pomodoro (lines 34-36): UPDATE tasks SET pomos = pomos + 1 WHERE id = task_id
add_pomodoro(rows, task_id) ==
    [i \in 1..Len(rows) |->
        IF rows[i].id = task_id THEN [rows[i] EXCEPT !.pomos = @ + 1] ELSE rows[i]]

\* main lines 102-103: current_list = columns[col_idx]
CurrentList == get_tasks_by_status(tasks, Statuses[col_idx + 1])

\* row_idx used as the last pass left it
ClampedRow_unclamped == row_idx

\* main lines 104-105: row_idx pulled back into a list that became shorter
ClampedRow ==
    IF row_idx >= Len(CurrentList) /\ Len(CurrentList) > 0
    THEN Len(CurrentList) - 1 ELSE row_idx

NoWrites == [time_left |-> {}, timer_running |-> {}]

PomFrame == UNCHANGED <<pwVars, todoVars, chemVars, portVars, finVars, sharedVars, txVars, capVars>>

\* lines 49-51 and 93-94, after init_db on a new database, both threads started
PomInit ==
    /\ timer_running = FALSE
    /\ time_left = FullCountdown
    /\ active_task_id = NoTask
    /\ tasks = <<>>
    /\ col_idx = 0
    /\ row_idx = 0
    /\ uiPc = "loop"
    /\ tmrPc = "check"
    /\ tmrRead = 0
    /\ pomWrites = NoWrites
    /\ pomPresses = 0
    /\ pomZeros = 0

\* what a pass of the main loop leaves alone when the key does not touch the
\* shared globals
UiKeepsGlobals ==
    UNCHANGED <<timer_running, time_left, active_task_id, tmrPc, tmrRead,
                pomWrites, pomPresses, pomZeros>>

\* one pass of the loop with no key waiting: getch() returns -1
NoKey ==
    /\ uiPc = "loop"
    /\ row_idx' = ClampedRow
    /\ UNCHANGED <<tasks, col_idx, uiPc>>
    /\ UiKeepsGlobals
    /\ PomFrame

\* 'q': break; the daemon timer thread ends with the process
KeyQuit ==
    /\ uiPc = "loop"
    /\ uiPc' = "quit"
    /\ row_idx' = ClampedRow
    /\ UNCHANGED <<tasks, col_idx>>
    /\ UiKeepsGlobals
    /\ PomFrame

\* KEY_RIGHT (lines 140-142)
KeyRight ==
    /\ uiPc = "loop"
    /\ col_idx' = (col_idx + 1) % 3
    /\ row_idx' = 0
    /\ UNCHANGED <<tasks, uiPc>>
    /\ UiKeepsGlobals
    /\ PomFrame

\* KEY_LEFT (lines 143-145)
KeyLeft ==
    /\ uiPc = "loop"
    /\ col_idx' = (col_idx - 1) % 3
    /\ row_idx' = 0
    /\ UNCHANGED <<tasks, uiPc>>
    /\ UiKeepsGlobals
    /\ PomFrame

\* KEY_UP (lines 146-147)
KeyUp ==
    /\ uiPc = "loop"
    /\ row_idx' = IF ClampedRow > 0 THEN ClampedRow - 1 ELSE ClampedRow
    /\ UNCHANGED <<tasks, col_idx, uiPc>>
    /\ UiKeepsGlobals
    /\ PomFrame

\* KEY_DOWN (lines 148-149)
KeyDown ==
    /\ uiPc = "loop"
    /\ row_idx' = IF ClampedRow < Len(CurrentList) - 1 THEN ClampedRow + 1 ELSE ClampedRow
    /\ UNCHANGED <<tasks, col_idx, uiPc>>
    /\ UiKeepsGlobals
    /\ PomFrame

\* 'a' (lines 150-157): the typed text goes to add_new_task
KeyAdd ==
    /\ uiPc = "loop"
    /\ Len(tasks) < MaxBoardTasks
    /\ \E new_t \in BoardTexts : tasks' = add_new_task(tasks, new_t)
    /\ row_idx' = ClampedRow
    /\ UNCHANGED <<col_idx, uiPc>>
    /\ UiKeepsGlobals
    /\ PomFrame

\* Enter (lines 158-160)
KeyEnter ==
    /\ uiPc = "loop"
    /\ row_idx' = ClampedRow
    /\ tasks' = IF CurrentList # <<>>
                THEN move_task(tasks, CurrentList[ClampedRow + 1].id, Statuses[col_idx + 1], 1)
                ELSE tasks
    /\ UNCHANGED <<col_idx, uiPc>>
    /\ UiKeepsGlobals
    /\ PomFrame

\* Backspace (lines 161-163)
KeyBackspace ==
    /\ uiPc = "loop"
    /\ row_idx' = ClampedRow
    /\ tasks' = IF CurrentList # <<>>
                THEN move_task(tasks, CurrentList[ClampedRow + 1].id, Statuses[col_idx + 1], -1)
                ELSE tasks
    /\ UNCHANGED <<col_idx, uiPc>>
    /\ UiKeepsGlobals
    /\ PomFrame

\* 's' (lines 164-166, 169-172): outside DOING or with an empty column only a
\* message is shown; otherwise the selected task becomes the active one
KeyS ==
    /\ uiPc = "loop"
    /\ row_idx' = ClampedRow
    /\ IF col_idx = 1 /\ CurrentList # <<>>
       THEN /\ pomPresses < MaxSPresses
            /\ active_task_id' = CurrentList[ClampedRow + 1].id
            /\ pomPresses' = pomPresses + 1
            /\ uiPc' = "toggle"
       ELSE UNCHANGED <<active_task_id, pomPresses, uiPc>>
    /\ UNCHANGED <<timer_running, time_left, tasks, col_idx, tmrPc, tmrRead,
                   pomWrites, pomZeros>>
    /\ PomFrame

\* line 167: timer_running = not timer_running
SToggle ==
    /\ uiPc = "toggle"
    /\ timer_running' = ~timer_running
    /\ pomWrites' = [pomWrites EXCEPT !.timer_running = @ \cup {"ui"}]
    /\ uiPc' = "reset"
    /\ UNCHANGED <<time_left, active_task_id, tasks, col_idx, row_idx, tmrPc,
                   tmrRead, pomPresses, pomZeros>>
    /\ PomFrame

\* line 168: if not timer_running: time_left = 1500
SReset ==
    /\ uiPc = "reset"
    /\ IF ~timer_running
       THEN /\ time_left' = FullCountdown
            /\ pomWrites' = [pomWrites EXCEPT !.time_left = @ \cup {"ui"}]
       ELSE UNCHANGED <<time_left, pomWrites>>
    /\ uiPc' = "loop"
    /\ UNCHANGED <<timer_running, active_task_id, tasks, col_idx, row_idx, tmrPc,
                   tmrRead, pomPresses, pomZeros>>
    /\ PomFrame

\* what a step of timer_loop leaves alone of the UI thread
TimerKeepsUi == UNCHANGED <<col_idx, row_idx, uiPc, pomPresses>>

\* line 56 with the condition true: the thread enters time.sleep(1); with
\* the condition false it sleeps 0.2 s and tests again, changing nothing
TimerCheck ==
    /\ uiPc # "quit"
    /\ tmrPc = "check"
    /\ timer_running /\ time_left > 0
    /\ tmrPc' = "sleep"
    /\ UNCHANGED <<timer_running, time_left, active_task_id, tasks, tmrRead,
                   pomWrites, pomZeros>>
    /\ TimerKeepsUi
    /\ PomFrame

\* lines 57-58: the sleep is over and time_left is read for `time_left -= 1`
TimerLoad ==
    /\ uiPc # "quit"
    /\ tmrPc = "sleep"
    /\ tmrRead' = time_left
    /\ tmrPc' = "store"
    /\ UNCHANGED <<timer_running, time_left, active_task_id, tasks, pomWrites,
                   pomZeros>>
    /\ TimerKeepsUi
    /\ PomFrame

\* line 58: the value read, less 1, is stored to time_left
TimerStore ==
    /\ uiPc # "quit"
    /\ tmrPc = "store"
    /\ time_left' = tmrRead - 1
    /\ pomWrites' = [pomWrites EXCEPT !.time_left = @ \cup {"timer"}]
    /\ pomZeros' = IF tmrRead - 1 = 0 THEN pomZeros + 1 ELSE pomZeros
    /\ tmrPc' = "test"
    /\ UNCHANGED <<timer_running, active_task_id, tasks, tmrRead>>
    /\ TimerKeepsUi
    /\ PomFrame

\* line 59: if time_left == 0
TimerTest ==
    /\ uiPc # "quit"
    /\ tmrPc = "test"
    /\ tmrPc' = IF time_left = 0 THEN "stop" ELSE "check"
    /\ UNCHANGED <<timer_running, time_left, active_task_id, tasks, tmrRead,
                   pomWrites, pomZeros>>
    /\ TimerKeepsUi
    /\ PomFrame

\* line 60: timer_running = False
TimerStop ==
    /\ uiPc # "quit"
    /\ tmrPc = "stop"
    /\ timer_running' = FALSE
    /\ pomWrites' = [pomWrites EXCEPT !.timer_running = @ \cup {"timer"}]
    /\ tmrPc' = "credit"
    /\ UNCHANGED <<time_left, active_task_id, tasks, tmrRead, pomZeros>>
    /\ TimerKeepsUi
    /\ PomFrame

\* lines 61-63: if active_task_id: add_pomodoro(active_task_id), then the bell
TimerAddPomodoro ==
    /\ uiPc # "quit"
    /\ tmrPc = "credit"
    /\ tasks' = IF active_task_id # NoTask THEN add_pomodoro(tasks, active_task_id)
                ELSE tasks
    /\ tmrPc' = "check"
    /\ UNCHANGED <<timer_running, time_left, active_task_id, tmrRead, pomWrites,
                   pomZeros>>
    /\ TimerKeepsUi
    /\ PomFrame

PomNext ==
    \/ NoKey
    \/ KeyQuit
    \/ KeyRight
    \/ KeyLeft
    \/ KeyUp
    \/ KeyDown
    \/ KeyAdd
    \/ KeyEnter
    \/ KeyBackspace
    \/ KeyS
    \/ SToggle
    \/ SReset
    \/ TimerCheck
    \/ TimerLoad
    \/ TimerStore
    \/ TimerTest
    \/ TimerStop
    \/ TimerAddPomodoro

RECURSIVE SumPomos(_)
SumPomos(rows) == IF rows = <<>> THEN 0 ELSE Head(rows).pomos + SumPomos(Tail(rows))

\* C11: the countdown time_left is written by the timer thread only; the UI
\* thread never writes it, whatever keys are pressed.
C11_OnlyTimerWritesTimeLeft == pomWrites.time_left \subseteq {"timer"}

\* C12: the flag timer_running is written by the UI thread only; the timer
\* thread never writes it, also when the countdown reaches 0.
C12_OnlyUiWritesTimerRunning == pomWrites.timer_running \subseteq {"ui"}

\* C13: each tick of the timer thread takes exactly 1 off the countdown; the
\* pomodoro counts change only when the timer thread, having stopped the
\* timer, adds exactly 1 to the active task; and every countdown that reached
\* 0 has been counted exactly once by the time the thread is back at the top
\* of its loop, whatever the UI thread does in between.
C13_TickAndCompletion ==
    /\ [][/\ (tmrPc = "store" /\ tmrPc' = "test") => time_left' = time_left - 1
          /\ tasks' # tasks /\ SumPomos(tasks') # SumPomos(tasks) =>
                /\ tmrPc = "credit"
                /\ ~timer_running
                /\ tasks' = add_pomodoro(tasks, active_task_id)
                /\ SumPomos(tasks') = SumPomos(tasks) + 1]_vars
    /\ [](tmrPc = "check" => SumPomos(tasks) = pomZeros)

\* C26: when the user stops a running timer with S the countdown is reset to
\* the full count (the step of line 168 that finds the timer stopped stores
\* it), and it stays at the full count for as long as the timer remains
\* stopped, whatever the timer thread does
C26_StoppedCountdownStaysFull ==
    [][/\ (uiPc = "reset" /\ uiPc' = "loop" /\ ~timer_running) => time_left' = FullCountdown
       /\ (uiPc = "loop" /\ ~timer_running /\ ~timer_running' /\ time_left = FullCountdown)
             => time_left' = FullCountdown]_vars

\* C27: after a countdown has completed (countdown 0, timer stopped) the next
\* S press on a task of DOING starts a fresh countdown: once the S branch is
\* through and the timer thread is at its test of line 56, a running timer
\* has a positive countdown for the thread to decrement
C27_StartAfterCompletionIsFresh ==
    (uiPc = "loop" /\ tmrPc = "check" /\ timer_running) => time_left > 0

\* C28: for every sequence of key presses, whenever the selected task is read
\* as current_list[row_idx] (Enter, Backspace and S read it, in a column that
\* is not empty, after lines 104-105) the index is within the column's list
C28_SelectedRowInRange ==
    /\ row_idx >= 0
    /\ (uiPc = "loop" /\ CurrentList # <<>>) => (0 <= ClampedRow /\ ClampedRow < Len(CurrentList))

\* a move has emptied the place row_idx points at: the column is shorter than
\* the row of the last pass
C28_Witness ==
    /\ uiPc = "loop"
    /\ CurrentList # <<>>
    /\ row_idx >= Len(CurrentList)
    /\ ClampedRow = Len(CurrentList) - 1

\* C29: in every reachable state, under all interleavings of the two threads
\* and with the decrement read and stored in two steps, 0 <= time_left <= the
\* full count, and time_left only ever changes by a decrement of 1 or a reset
\* to the full count
C29_CountdownStepsAndRange ==
    /\ [](0 <= time_left /\ time_left <= FullCountdown)
    /\ [][time_left' # time_left =>
             (time_left' = time_left - 1 \/ time_left' = FullCountdown)]_vars

\* the status one step forward and one step back along TODO -> DOING -> DONE,
\* a step past either end staying where it is
StepForward(status) ==
    CASE status = "TODO" -> "DOING"
      [] status = "DOING" -> "DONE"
      [] OTHER -> status

StepBack(status) ==
    CASE status = "DONE" -> "DOING"
      [] status = "DOING" -> "TODO"
      [] OTHER -> status

\* the table after the selected task alone went to the status that `to` gives
OnlySelectedMoved(to(_)) ==
    \/ CurrentList = <<>> /\ tasks' = tasks
    \/ /\ CurrentList # <<>>
       /\ Len(tasks') = Len(tasks)
       /\ \A i \in 1..Len(tasks) :
              tasks'[i] = IF tasks[i].id = CurrentList[ClampedRow + 1].id
                          THEN [tasks[i] EXCEPT !.status = to(tasks[i].status)]
                          ELSE tasks[i]

\* the table after 'a': as it was, or with one more row, of status TODO, 0
\* pomodoros and a text that is not blank
CreatedInTodoOrNothing ==
    \/ tasks' = tasks
    \/ /\ Len(tasks') = Len(tasks) + 1
       /\ SubSeq(tasks', 1, Len(tasks)) = tasks
       /\ tasks'[Len(tasks')].status = "TODO"
       /\ tasks'[Len(tasks')].pomos = 0
       /\ strip(tasks'[Len(tasks')].task) # <<>>

\* C30: every task's status is one of TODO, DOING, DONE; a task is created in
\* TODO with 0 pomodoros and blank text creates none; Enter moves the selected
\* task exactly one step forward and Backspace one step back, a move past
\* either end leaves it unchanged, and no move changes another task or the
\* pomodoro count
C30_TasksMoveOneStepAlongFlow ==
    /\ [](\A i \in 1..Len(tasks) : tasks[i].status \in {"TODO", "DOING", "DONE"})
    /\ [][KeyAdd => CreatedInTodoOrNothing]_vars
    /\ [][KeyEnter => OnlySelectedMoved(StepForward)]_vars
    /\ [][KeyBackspace => OnlySelectedMoved(StepBack)]_vars

\* C30 witness: with a task created and left in TODO, another task has been
\* moved forward twice to DONE and is the selected one, where Enter is a move
\* past the end
C30_Witness ==
    /\ uiPc = "loop"
    /\ col_idx = 2
    /\ CurrentList # <<>>
    /\ \E i \in 1..Len(tasks) : tasks[i].status = "TODO" /\ tasks[i].pomos = 0
    /\ \E i \in 1..Len(tasks) : tasks[i].status = "DONE"

(***************************************************************************)
(* finance_tracker.py: the prompts of add_transaction                      *)
(***************************************************************************)

\* the calls of add_transaction one run makes
MaxPromptedTx == 2

\* the rejected inputs in a row that are followed at one prompt
MaxRejected == 3

\* _get_valid_input (line 96): max_attempts: int = 3
max_attempts == 3

\* a Python float: a finite value counted in hundredths, or nan, inf, -inf
PyFloat(kind, cents) == [kind |-> kind, cents |-> cents]

FloatError == [ok |-> FALSE, value |-> PyFloat("none", 0)]

FloatOk(value) == [ok |-> TRUE, value |-> value]

\* the position of the first "." of s, 0 when s has none
FirstDot(s) ==
    IF \E i \in 1..Len(s) : s[i] = "."
    THEN CHOOSE i \in 1..Len(s) : s[i] = "." /\ \A j \in 1..(i - 1) : s[j] # "."
    ELSE 0

AllDigits(s) == \A i \in 1..Len(s) : s[i] \in DigitChars

\* the digits before the point, as a number
WholeValue(ds) == IF ds = <<>> THEN 0 ELSE int_of_str(ds)

\* the digits after the point, in hundredths; the amounts typed carry at
\* most two of them
FractionCents(ds) ==
    IF ds = <<>> THEN 0
    ELSE IF Len(ds) = 1 THEN 10 * DigitValue(ds[1])
    ELSE 10 * DigitValue(ds[1]) + DigitValue(ds[2])

\* float(text) for the decimal forms: surrounding whitespace is dropped, a
\* sign may lead, "nan", "inf" and "infinity" are read in any case, and
\* anything else must be digits with at most one point and at least one digit
float(text) ==
    LET body == strip(text)
        signed == body # <<>> /\ body[1] \in {"+", "-"}
        negative == signed /\ body[1] = "-"
        rest == IF signed THEN Tail(body) ELSE body
        word == lower(rest)
        dot == FirstDot(rest)
        whole == IF dot = 0 THEN rest ELSE SubSeq(rest, 1, dot - 1)
        frac == IF dot = 0 THEN <<>> ELSE SubSeq(rest, dot + 1, Len(rest))
        cents == 100 * WholeValue(whole) + FractionCents(frac)
    IN  IF word = <<"n", "a", "n">> THEN FloatOk(PyFloat("nan", 0))
        ELSE IF word \in {<<"i", "n", "f">>, <<"i", "n", "f", "i", "n", "i", "t", "y">>}
        THEN FloatOk(PyFloat(IF negative THEN "-inf" ELSE "inf", 0))
        ELSE IF AllDigits(whole) /\ AllDigits(frac) /\ Len(whole) + Len(frac) > 0
        THEN FloatOk(PyFloat("finite", IF negative THEN 0 - cents ELSE cents))
        ELSE FloatError

\* amount <= 0 of lines 130 and 133: every comparison with nan is False
FloatLeZero(x) == x.kind = "-inf" \/ (x.kind = "finite" /\ x.cents <= 0)

\* _validate_category (lines 105-107): ^[a-zA-Z0-9\s]+$ on a string with no
\* line break at its end
_validate_category(text) ==
    /\ Len(text) > 0
    /\ \A i \in 1..Len(text) :
          text[i] \in UpperChars \cup LowerChars \cup DigitChars \cup WhitespaceChars

\* datetime.now().date() during the run
Today == [year |-> 2025, month |-> 6, day |-> 15]

CalendarDate(y, m, d) == [year |-> y, month |-> m, day |-> d]

\* text.split("-")
RECURSIVE SplitDash(_)
SplitDash(text) ==
    IF \E i \in 1..Len(text) : text[i] = "-"
    THEN LET i == CHOOSE k \in 1..Len(text) :
                      text[k] = "-" /\ \A j \in 1..(k - 1) : text[j] # "-"
         IN  <<SubSeq(text, 1, i - 1)>> \o SplitDash(SubSeq(text, i + 1, Len(text)))
    ELSE <<text>>

\* what %m of strptime matches: 1[0-2]|0[1-9]|[1-9]
MonthForms ==
    {<<"1", "0">>, <<"1", "1">>, <<"1", "2">>}
    \cup {<<"0", c>> : c \in DigitChars \ {"0"}}
    \cup {<<c>> : c \in DigitChars \ {"0"}}

\* what %d of strptime matches: 3[01]|[12]\d|0[1-9]|[1-9]| [1-9]
DayForms ==
    {<<"3", "0">>, <<"3", "1">>}
    \cup {<<a, b>> : a \in {"1", "2"}, b \in DigitChars}
    \cup {<<"0", c>> : c \in DigitChars \ {"0"}}
    \cup {<<c>> : c \in DigitChars \ {"0"}}
    \cup {<<" ", c>> : c \in DigitChars \ {"0"}}

IsLeap(y) == y % 4 = 0 /\ (y % 100 # 0 \/ y % 400 = 0)

DaysIn(y, m) ==
    IF m = 2 THEN (IF IsLeap(y) THEN 29 ELSE 28)
    ELSE IF m \in {4, 6, 9, 11} THEN 30 ELSE 31

DateError == [ok |-> FALSE, value |-> CalendarDate(0, 0, 0)]

\* datetime.strptime(text, "%Y-%m-%d"): four digits of year, a month and a
\* day in the forms above with "-" between them, nothing left over, and a
\* day that exists in a year from 1 on
strptime(text) ==
    LET parts == SplitDash(text) IN
    IF Len(parts) # 3 THEN DateError
    ELSE IF ~ (Len(parts[1]) = 4 /\ AllDigits(parts[1])) THEN DateError
    ELSE IF parts[2] \notin MonthForms \/ parts[3] \notin DayForms THEN DateError
    ELSE LET y == int_of_str(parts[1])
             m == int_of_str(parts[2])
             d == int_of_str(lstrip(parts[3]))
         IN  IF y >= 1 /\ d <= DaysIn(y, m)
             THEN [ok |-> TRUE, value |-> CalendarDate(y, m, d)]
             ELSE DateError

\* a > b of two dates
DateAfter(a, b) ==
    \/ a.year > b.year
    \/ a.year = b.year /\ a.month > b.month
    \/ a.year = b.year /\ a.month = b.month /\ a.day > b.day

\* _validate_date (lines 84-94)
_validate_date(date_str) ==
    LET input_date == strptime(date_str) IN
    input_date.ok /\ ~DateAfter(input_date.value, Today)

\* two digits of a number below 100
Pad2(n) == IF n < 10 THEN <<"0">> \o str_of_int(n) ELSE str_of_int(n)

\* datetime.now().strftime("%Y-%m-%d") for a year of four digits
TodayText == str_of_int(Today.year) \o <<"-">> \o Pad2(Today.month) \o <<"-">> \o Pad2(Today.day)

\* what the user types at each prompt
TypeInputs == {<<"x">>, <<" ", "E", "x", "p", "e", "n", "s", "e", " ">>, <<"i", "n", "c", "o", "m", "e">>}

AmountInputs == {<<"0">>, <<"a", "b", "c">>, <<"-", "5">>, <<" ", "1", "2", ".", "5", "0", " ">>, <<"n", "a", "n">>}

DescriptionInputs == {<<>>, <<" ", " ">>, <<" ", "l", "u", "n", "c", "h", " ">>}

CategoryInputs == {<<>>, <<"a", "_", "b">>, <<"a", "\t", "b">>, <<"F", "o", "o", "d", " ", "2">>}

DateInputs == {<<>>, <<"2", "9", "9", "9", "-", "0", "1", "-", "0", "1">>, <<"2", "0", "2", "4", "-", "1", "3", "-", "0", "1">>, <<"2", "0", "2", "3", "-", "0", "2", "-", "2", "9">>, <<"2", "0", "2", "4", "-", "0", "2", "-", "2", "9">>,
               <<"2", "0", "2", "4", "-", "1", "-", "5">>}

EmptyText == <<>>

ZeroFloat == PyFloat("finite", 0)

\* add_transaction is not running
TxIdle ==
    /\ txPc = "idle"
    /\ t_type = EmptyText
    /\ amount = ZeroFloat
    /\ desc = EmptyText
    /\ category = EmptyText
    /\ date = EmptyText
    /\ txAdded = 0
    /\ txRejected = 0

\* the other scripts do not move while add_transaction runs
TxFrame == UNCHANGED <<pwVars, todoVars, chemVars, portVars, sharedVars, pomVars, capVars>>

TxKeepsFiles == UNCHANGED <<finFile, finBak, finTmp, finLast>>

\* run (line 289): choice 1 calls add_transaction; line 122
BeginAddTransaction ==
    /\ finPc = "menu"
    /\ txPc = "idle"
    /\ txAdded < MaxPromptedTx
    /\ txPc' = "type"
    /\ t_type' = EmptyText
    /\ UNCHANGED <<txRejected, amount, desc, category, date, txAdded, finData, finPc>>
    /\ TxKeepsFiles
    /\ TxFrame

\* lines 123-126, one pass of the loop, and line 129 when the loop ends
PromptType ==
    /\ txPc = "type"
    /\ txRejected < MaxRejected
    /\ \E typed \in TypeInputs :
          /\ t_type' = strip(lower(typed))
          /\ IF t_type' \in {<<"i", "n", "c", "o", "m", "e">>, <<"e", "x", "p", "e", "n", "s", "e">>}
             THEN txPc' = "amount" /\ amount' = ZeroFloat
             ELSE txPc' = txPc /\ amount' = amount
    /\ txRejected' = IF txPc' = txPc THEN txRejected + 1 ELSE 0
    /\ UNCHANGED <<desc, category, date, txAdded, finData, finPc>>
    /\ TxKeepsFiles
    /\ TxFrame

\* lines 130-136, one pass of the loop, and line 139 when the loop ends: a
\* text float() rejects leaves amount as it was
PromptAmount ==
    /\ txPc = "amount"
    /\ txRejected < MaxRejected
    /\ \E typed \in AmountInputs :
          LET parsed == float(strip(typed)) IN
          /\ amount' = IF parsed.ok THEN parsed.value ELSE amount
          /\ IF FloatLeZero(amount')
             THEN txPc' = txPc /\ desc' = desc
             ELSE txPc' = "description" /\ desc' = EmptyText
    /\ txRejected' = IF txPc' = txPc THEN txRejected + 1 ELSE 0
    /\ UNCHANGED <<t_type, category, date, txAdded, finData, finPc>>
    /\ TxKeepsFiles
    /\ TxFrame

\* lines 140-143, one pass of the loop, and line 146 when the loop ends
PromptDescription ==
    /\ txPc = "description"
    /\ txRejected < MaxRejected
    /\ \E typed \in DescriptionInputs :
          /\ desc' = strip(typed)
          /\ IF strip(desc') = EmptyText
             THEN txPc' = txPc /\ category' = category
             ELSE txPc' = "category" /\ category' = EmptyText
    /\ txRejected' = IF txPc' = txPc THEN txRejected + 1 ELSE 0
    /\ UNCHANGED <<t_type, amount, date, txAdded, finData, finPc>>
    /\ TxKeepsFiles
    /\ TxFrame

\* lines 147-150, one pass of the loop, and line 153 when the loop ends
PromptCategory ==
    /\ txPc = "category"
    /\ txRejected < MaxRejected
    /\ \E typed \in CategoryInputs :
          /\ category' = strip(typed)
          /\ IF _validate_category(category')
             THEN txPc' = "date" /\ date' = EmptyText
             ELSE txPc' = txPc /\ date' = date
    /\ txRejected' = IF txPc' = txPc THEN txRejected + 1 ELSE 0
    /\ UNCHANGED <<t_type, amount, desc, txAdded, finData, finPc>>
    /\ TxKeepsFiles
    /\ TxFrame

\* lines 154-158, one pass of the loop
PromptDate ==
    /\ txPc = "date"
    /\ txRejected < MaxRejected
    /\ \E typed \in DateInputs :
          LET date_input == strip(typed)
              chosen == IF date_input # EmptyText THEN date_input ELSE TodayText
          IN  /\ date' = IF _validate_date(chosen) THEN chosen ELSE EmptyText
              /\ txPc' = IF date' # EmptyText THEN "append" ELSE txPc
    /\ txRejected' = IF txPc' = txPc THEN txRejected + 1 ELSE 0
    /\ UNCHANGED <<t_type, amount, desc, category, txAdded, finData, finPc>>
    /\ TxKeepsFiles
    /\ TxFrame

\* the record of lines 160-163
PromptedRecord == FinRecord(t_type, amount, desc, category, date)

\* lines 160-164: the record is appended and save_data is entered
AppendRecord ==
    /\ txPc = "append"
    /\ finData' = [finData EXCEPT !.transactions = Append(@, PromptedRecord)]
    /\ txAdded' = txAdded + 1
    /\ txPc' = "saving"
    /\ finPc' = "backup"
    /\ finLast' = [backup |-> "none", returned |-> "running"]
    /\ UNCHANGED <<txRejected, t_type, amount, desc, category, date, finFile, finBak, finTmp>>
    /\ TxFrame

\* line 165, after save_data has returned
AddTransactionReturns ==
    /\ txPc = "saving"
    /\ finPc = "menu"
    /\ txPc' = "idle"
    /\ UNCHANGED <<txRejected, t_type, amount, desc, category, date, txAdded, finData, finPc>>
    /\ TxKeepsFiles
    /\ TxFrame

TxNext ==
    \/ FinConstruct
    \/ BeginAddTransaction
    \/ PromptType
    \/ PromptAmount
    \/ PromptDescription
    \/ PromptCategory
    \/ PromptDate
    \/ AppendRecord
    \/ BackupCopy
    \/ WriteTemp
    \/ ReplaceFile
    \/ RestoreBackup
    \/ AddTransactionReturns

\* a string in the form YYYY-MM-DD that names a day of the calendar
IsIsoDate(text) ==
    /\ Len(text) = 10
    /\ text[5] = "-" /\ text[8] = "-"
    /\ \A i \in {1, 2, 3, 4, 6, 7, 9, 10} : text[i] \in DigitChars
    /\ strptime(text).ok

\* a positive number
IsPositiveNumber(x) == x.kind = "inf" \/ (x.kind = "finite" /\ x.cents > 0)

\* made only of letters, digits and spaces
LettersDigitsSpaces(text) ==
    \A i \in 1..Len(text) : text[i] \in UpperChars \cup LowerChars \cup DigitChars \cup {" "}

\* what C16 says of one appended record
WellFormedRecord(rec) ==
    /\ rec.type \in {<<"i", "n", "c", "o", "m", "e">>, <<"e", "x", "p", "e", "n", "s", "e">>}
    /\ IsPositiveNumber(rec.amount)
    /\ rec.description # EmptyText
    /\ rec.category # EmptyText /\ LettersDigitsSpaces(rec.category)
    /\ IsIsoDate(rec.date) /\ ~DateAfter(strptime(rec.date).value, Today)

\* C16: every record add_transaction appends has type income or expense, a
\* positive amount, a non-empty description, a non-empty category of letters,
\* digits and spaces, and a valid YYYY-MM-DD date not after today; and
\* add_transaction adds exactly one record at the end of the list and leaves
\* the records before it as they were
C16_AppendedRecordsWellFormed ==
    /\ [](\A i \in 1..Len(finData.transactions) : WellFormedRecord(finData.transactions[i]))
    /\ [][finData'.transactions # finData.transactions /\ txPc # "idle" =>
             /\ Len(finData'.transactions) = Len(finData.transactions) + 1
             /\ SubSeq(finData'.transactions, 1, Len(finData.transactions))
                   = finData.transactions]_vars

\* add_transaction is at one of its prompts
AtPrompt == txPc \in {"type", "amount", "description", "category", "date"}

\* C24: re-prompting is bounded by an attempt counter: after max_attempts
\* rejected inputs a prompt of add_transaction is not asked again
C24_PromptsBoundedByAttempts == txRejected >= max_attempts => ~AtPrompt

(***************************************************************************)
(* captcha_generator.py                                                    *)
(***************************************************************************)

\* the longest CAPTCHA generated
MaxCaptchaLen == 5

\* the characters random.choice is seen to draw
CapSample == {"a", "B", "7", "0"}

\* lines 18-20
easy_chars == DigitChars

medium_chars == UpperChars \cup DigitChars

hard_chars == UpperChars \cup LowerChars \cup DigitChars

CapSeparators == {"-", "_", ".", "~"}

CapNoise == {"*", "#", "@", "+"}

\* c.upper()
upper_char(c) == IF c \in LowerChars THEN (CHOOSE p \in CasePairs : p[2] = c)[1] ELSE c

\* separator.join(chars)
RECURSIVE join(_, _)
join(separator, chars) ==
    IF chars = <<>> THEN <<>>
    ELSE IF Len(chars) = 1 THEN <<chars[1]>>
    ELSE <<chars[1], separator>> \o join(separator, Tail(chars))

\* the loop of lines 94-99 over captcha[k..]
RECURSIVE HardFormat(_, _, _)
HardFormat(captcha, k, separator) ==
    IF k > Len(captcha) THEN <<>>
    ELSE <<IF (k - 1) % 2 = 0 THEN upper_char(captcha[k]) ELSE lower_char(captcha[k]), separator>>
         \o HardFormat(captcha, k + 1, separator)

\* _format_captcha (lines 68-101) with the two random choices it makes
_format_captcha(captcha, difficulty, separator, noise) ==
    IF difficulty = "easy" THEN join(separator, captcha)
    ELSE IF difficulty = "medium"
    THEN <<noise, " ">> \o join(separator, captcha) \o <<" ", noise>>
    ELSE HardFormat(captcha, 1, separator)

\* the lengths random.randint draws when no length is given (lines 50-61)
DrawnLengths(difficulty) ==
    {n \in 1..MaxCaptchaLen : IF difficulty \in {"easy", "medium"} THEN n \in 4..5 ELSE n \in 5..7}

CharsOf(difficulty) ==
    IF difficulty = "easy" THEN easy_chars
    ELSE IF difficulty = "medium" THEN medium_chars
    ELSE hard_chars

NoLength == 0

\* the hint of lines 132-136: the count it names and what it asks for
CapHint(difficulty, n) ==
    [count |-> n,
     asks |-> IF difficulty = "easy" THEN "numbers you see"
              ELSE IF difficulty = "medium" THEN "alphanumeric characters (case-insensitive)"
              ELSE "characters exactly as shown (case-sensitive)"]

\* generate_with_hint (lines 119-144) over generate_captcha (lines 39-66):
\* every dict the random draws can give
generate_with_hint(difficulty, length) ==
    {[captcha |-> captcha,
      display |-> _format_captcha(captcha, difficulty, separator, noise),
      hint |-> CapHint(difficulty, Len(captcha)),
      length |-> Len(captcha),
      difficulty |-> difficulty] :
        captcha \in UNION {[1..n -> CharsOf(difficulty) \cap CapSample] :
                              n \in IF length = NoLength THEN DrawnLengths(difficulty) ELSE {length}},
        separator \in CapSeparators,
        noise \in IF difficulty = "medium" THEN CapNoise ELSE {"*"}}

\* verify_captcha (lines 103-117)
verify_captcha(captcha, typed, case_sensitive) ==
    IF ~case_sensitive THEN lower(captcha) = lower(typed)
    ELSE captcha = typed

\* what a user reads from the display: its characters without the
\* separators, the noise and the blanks
RECURSIVE ReadDisplay(_)
ReadDisplay(display) ==
    IF display = <<>> THEN <<>>
    ELSE IF Head(display) \in CapSeparators \cup CapNoise \cup {" "}
    THEN ReadDisplay(Tail(display))
    ELSE <<Head(display)>> \o ReadDisplay(Tail(display))

\* what the user may type at "Enter the CAPTCHA:"
CapAnswers(result) ==
    {ReadDisplay(result.display), <<" ">> \o lower(ReadDisplay(result.display)), <<"x">>}

\* what the user may type at "Enter CAPTCHA length (4-10):"
CapLengthInputs == {NotANumber} \cup {[isnum |-> TRUE, n |-> k] : k \in 3..MaxCaptchaLen}

\* what the user may type at "Enter difficulty (easy/medium/hard):"
CapDifficultyInputs == {<<" ", "E", "a", "s", "y", " ">>, <<"m", "e", "d", "i", "u", "m">>, <<"H", "A", "R", "D">>, <<"x">>}

CapDifficultyOf(text) ==
    IF text = <<"e", "a", "s", "y">> THEN "easy"
    ELSE IF text = <<"h", "a", "r", "d">> THEN "hard"
    ELSE "medium"

NoCaptcha ==
    [captcha |-> <<>>, display |-> <<>>, hint |-> CapHint("medium", 0), length |-> 0,
     difficulty |-> "none"]

\* the other scripts do not move while the CAPTCHA generator runs
CapFrame ==
    UNCHANGED <<pwVars, todoVars, chemVars, portVars, finVars, sharedVars, pomVars, txVars>>

\* main before its first prompt (lines 155-164)
CapInit ==
    /\ capPc = "menu"
    /\ capChoice = ""
    /\ capResult = NoCaptcha
    /\ user_input = <<>>
    /\ capVerified = "none"

CapIdle == CapInit

\* choices "1", "2", "3" (lines 174-179) and the display of lines 198-202
CapGenerate ==
    /\ capPc = "menu"
    /\ \E c \in {"1", "2", "3"} :
          /\ capChoice' = c
          /\ capResult' \in generate_with_hint(
                               IF c = "1" THEN "easy" ELSE IF c = "2" THEN "medium" ELSE "hard",
                               NoLength)
    /\ capPc' = "verify"
    /\ UNCHANGED <<user_input, capVerified>>
    /\ CapFrame

\* choice "4" (lines 180-190): a length clamped to 4..10 and a difficulty that
\* falls back to medium; a length that is no number gives the default medium
CapCustom ==
    /\ capPc = "menu"
    /\ capChoice' = "4"
    /\ \E typed \in CapLengthInputs, level \in CapDifficultyInputs :
          IF typed.isnum
          THEN LET clamped == IF typed.n > 10 THEN 10 ELSE IF typed.n < 4 THEN 4 ELSE typed.n
               IN  capResult' \in generate_with_hint(CapDifficultyOf(lower(strip(level))), clamped)
          ELSE capResult' \in generate_with_hint("medium", NoLength)
    /\ capPc' = "verify"
    /\ UNCHANGED <<user_input, capVerified>>
    /\ CapFrame

\* any other choice (lines 194-196)
CapInvalidChoice ==
    /\ capPc = "menu"
    /\ capChoice' = "other"
    /\ UNCHANGED <<capPc, capResult, user_input, capVerified>>
    /\ CapFrame

\* choice "5" (lines 191-193)
CapExit ==
    /\ capPc = "menu"
    /\ capChoice' = "5"
    /\ capPc' = "exited"
    /\ UNCHANGED <<capResult, user_input, capVerified>>
    /\ CapFrame

\* lines 206-212: the answer is read, stripped and verified
CapVerify ==
    /\ capPc = "verify"
    /\ \E typed \in CapAnswers(capResult) :
          /\ user_input' = strip(typed)
          /\ capVerified' =
                IF verify_captcha(capResult.captcha, user_input', capResult.difficulty = "hard")
                THEN "Correct" ELSE "Incorrect"
    /\ capPc' = "printed"
    /\ UNCHANGED <<capChoice, capResult>>
    /\ CapFrame

\* the end of the loop body (line 212 back to line 164): result and user_input
\* are not read again before the next round assigns them, and are dropped
CapLoop ==
    /\ capPc = "printed"
    /\ capPc' = "menu"
    /\ capResult' = NoCaptcha
    /\ user_input' = <<>>
    /\ capVerified' = "none"
    /\ UNCHANGED capChoice
    /\ CapFrame

CapNext ==
    \/ CapGenerate
    \/ CapCustom
    \/ CapInvalidChoice
    \/ CapExit
    \/ CapVerify
    \/ CapLoop

\* C22: for every generated CAPTCHA of every difficulty, the answer read from
\* the display, its separators and noise removed, is accepted by the
\* verification of that difficulty; for a hard CAPTCHA, entering the
\* characters exactly as shown verifies
C22_AnswerReadFromDisplayVerifies ==
    (capVerified # "none" /\ user_input = ReadDisplay(capResult.display))
        => capVerified = "Correct"

(***************************************************************************)
(* Specifications: one script runs, the others stay as they start          *)
(***************************************************************************)

InitPassword == PwInit /\ TodoInit /\ ChemIdle /\ PortIdle /\ FinInit /\ SharedInit /\ PomInit /\ TxIdle /\ CapIdle

SpecPassword == InitPassword /\ [][PwNext]_vars

InitTodo == TodoInit /\ PwIdle /\ ChemIdle /\ PortIdle /\ FinInit /\ SharedInit /\ PomInit /\ TxIdle /\ CapIdle

SpecTodo == InitTodo /\ [][TodoNext]_vars

InitChem == ChemInit /\ PwIdle /\ TodoInit /\ PortIdle /\ FinInit /\ SharedInit /\ PomInit /\ TxIdle /\ CapIdle

SpecChem == InitChem /\ [][ChemNext]_vars

InitPort == PortInit /\ PwIdle /\ TodoInit /\ ChemIdle /\ FinInit /\ SharedInit /\ PomInit /\ TxIdle /\ CapIdle

SpecPort == InitPort /\ [][PortNext]_vars

InitFinance == FinInit /\ PwIdle /\ TodoInit /\ ChemIdle /\ PortIdle /\ SharedInit /\ PomInit /\ TxIdle /\ CapIdle

SpecFinance == InitFinance /\ [][FinNext]_vars

InitLoadData ==
    LoadInit /\ PwIdle /\ TodoInit /\ ChemIdle /\ PortIdle /\ SharedInit /\ PomInit /\ TxIdle /\ CapIdle

SpecLoadData == InitLoadData /\ [][FinConstruct]_vars

InitShared == SharedInit /\ PwIdle /\ TodoInit /\ ChemIdle /\ PortIdle /\ FinInit /\ PomInit /\ TxIdle /\ CapIdle

SpecShared == InitShared /\ [][SharedNext]_vars

InitPomodoro ==
    PomInit /\ PwIdle /\ TodoInit /\ ChemIdle /\ PortIdle /\ FinInit /\ SharedInit /\ TxIdle /\ CapIdle

SpecPomodoro == InitPomodoro /\ [][PomNext]_vars

InitAddTransaction ==
    FinInit /\ TxIdle /\ CapIdle /\ PwIdle /\ TodoInit /\ ChemIdle /\ PortIdle /\ SharedInit /\ PomInit

SpecAddTransaction == InitAddTransaction /\ [][TxNext]_vars

InitCaptcha ==
    CapInit /\ PwIdle /\ TodoInit /\ ChemIdle /\ PortIdle /\ FinInit /\ SharedInit /\ PomInit /\ TxIdle

SpecCaptcha == InitCaptcha /\ [][CapNext]_vars

====
